---- MODULE Spec2Model ----
(***************************************************************************)
(* BeeLandr: a model of the persistent key-value store (StorageManager),   *)
(* the weather/forage scoring engine (WeatherService) and the browser      *)
(* facilities they run on (localStorage, JSON, fetch, the clock).          *)
(*                                                                         *)
(* JavaScript values are tagged tuples, the tag first:                     *)
(*   <<"undef">>  <<"null">>  <<"nan">>  <<"bool", b>>  <<"num", n, d>>    *)
(*   <<"str", s>>  <<"arr", <<v1, ..>>>>  <<"obj", << <<k1, v1>>, ..>>>>   *)
(* A number is the exact rational n/d in lowest terms (d > 0); binary      *)
(* floating-point rounding error is not modelled.  A JSON text is the      *)
(* sequence of its lexical tokens:                                         *)
(*   <<"p", "{">> punctuation, <<"n", n, d>> number, <<"s", s>> string,    *)
(*   <<"l", "true">> literal, <<"x", s>> a lexeme that is no JSON token.   *)
(***************************************************************************)
EXTENDS Integers, Sequences, FiniteSets, TLC

VARIABLES
    localStorage,   \* window.localStorage: present keys |-> stored text
    now,            \* Date.now(), in milliseconds
    calls,          \* the getWeatherForPlot invocations, by call number
    lastOp,         \* the StorageManager operation that ran last, and its outcome
    lastSaved,      \* per key, what the last save wrote (until removed)
    fiArg,          \* argument of calculateForageIndex
    fiResult,       \* its result
    fiPrev,         \* argument and result of the evaluation before it
    bsArgs,         \* arguments of calculateBeeScore
    bsResult,       \* its result
    state,          \* app.state: role, filters, allPlots
    map,            \* the MapManager: drawnItems, featureGroup, draw control
    page,           \* the document: sidebar texts, feedback, notices, modals
    loads,          \* the loadCommunityPlots calls in flight, oldest first
    lastEvent       \* what the last step alerted and logged as an error

vars == <<localStorage, now, calls, lastOp, lastSaved,
          fiArg, fiResult, fiPrev, bsArgs, bsResult,
          state, map, page, loads, lastEvent>>

-----------------------------------------------------------------------------
(* JavaScript values                                                       *)

Undef == <<"undef">>
Null == <<"null">>
NaN == <<"nan">>
Bool(b) == <<"bool", b>>
Str(s) == <<"str", s>>
Arr(elems) == <<"arr", elems>>
Obj(pairs) == <<"obj", pairs>>

Abs(n) == IF n < 0 THEN -n ELSE n

RECURSIVE GCD(_, _)
GCD(a, b) == IF b = 0 THEN a ELSE GCD(b, a % b)

\* the number n/d (d > 0), in lowest terms
Num(n, d) == LET g == GCD(Abs(n), d) IN <<"num", n \div g, d \div g>>
IntNum(n) == <<"num", n, 1>>

Tag(v) == v[1]
IsNum(v) == Tag(v) = "num"
IsStr(v) == Tag(v) = "str"
IsArr(v) == Tag(v) = "arr"
IsObj(v) == Tag(v) = "obj"
IsNullish(v) == Tag(v) \in {"undef", "null"}

\* ToBoolean: undefined, null, NaN, false, 0 and "" are falsy
Truthy(v) ==
    CASE Tag(v) \in {"undef", "null", "nan"} -> FALSE
      [] Tag(v) = "bool" -> v[2]
      [] Tag(v) = "num" -> v[2] # 0
      [] Tag(v) = "str" -> v[2] # ""
      [] OTHER -> TRUE

\* ToNumber of a primitive; the strings of the model are "" or non-numeric text
ToNumber(v) ==
    CASE Tag(v) = "num" -> v
      [] Tag(v) = "null" -> IntNum(0)
      [] Tag(v) = "bool" -> IF v[2] THEN IntNum(1) ELSE IntNum(0)
      [] Tag(v) = "str" -> IF v[2] = "" THEN IntNum(0) ELSE NaN
      [] OTHER -> NaN

\* a + b: string concatenation when either side is a string (the result is
\* non-numeric text, whatever it spells), numeric addition otherwise
JSAdd(a, b) ==
    IF IsStr(a) \/ IsStr(b) THEN Str("text")
    ELSE LET x == ToNumber(a)
             y == ToNumber(b)
         IN IF IsNum(x) /\ IsNum(y)
            THEN Num(x[2] * y[3] + y[2] * x[3], x[3] * y[3])
            ELSE NaN

\* a * k and a / k for an integer k > 0
JSMulInt(a, k) == LET x == ToNumber(a) IN IF IsNum(x) THEN Num(x[2] * k, x[3]) ELSE NaN
JSDivInt(a, k) == LET x == ToNumber(a) IN IF IsNum(x) THEN Num(x[2], x[3] * k) ELSE NaN

\* a < b and a > b on numbers: false when either side is NaN
JSLt(a, b) ==
    LET x == ToNumber(a)
        y == ToNumber(b)
    IN IsNum(x) /\ IsNum(y) /\ x[2] * y[3] < y[2] * x[3]
JSGt(a, b) == JSLt(b, a)

\* Math.round: the nearest integer, halves towards +infinity
MathRound(a) ==
    LET x == ToNumber(a)
    IN IF IsNum(x) THEN IntNum((2 * x[2] + x[3]) \div (2 * x[3])) ELSE NaN

\* Math.min / Math.max of two numbers: NaN when either is NaN
MathMin(a, b) == IF ~IsNum(a) \/ ~IsNum(b) THEN NaN ELSE IF JSLt(b, a) THEN b ELSE a
MathMax(a, b) == IF ~IsNum(a) \/ ~IsNum(b) THEN NaN ELSE IF JSLt(a, b) THEN b ELSE a

\* o[k]: undefined for a missing property and for a property of a primitive
RECURSIVE Lookup(_, _, _)
Lookup(pairs, k, i) ==
    IF i > Len(pairs) THEN Undef
    ELSE IF pairs[i][1] = k THEN pairs[i][2]
    ELSE Lookup(pairs, k, i + 1)

Get(o, k) == IF IsObj(o) THEN Lookup(o[2], k, 1) ELSE Undef

HasKey(o, k) == IsObj(o) /\ \E i \in 1..Len(o[2]) : o[2][i][1] = k

\* o[k] = v: an existing property keeps its place, a new one goes last
SetProp(o, k, v) ==
    IF HasKey(o, k)
    THEN Obj([i \in 1..Len(o[2]) |-> IF o[2][i][1] = k THEN <<k, v>> ELSE o[2][i]])
    ELSE Obj(Append(o[2], <<k, v>>))

\* delete o[k]
DelProp(o, k) == Obj(SelectSeq(o[2], LAMBDA p : p[1] # k))

-----------------------------------------------------------------------------
(* JSON.stringify and JSON.parse                                           *)

P(c) == <<"p", c>>

RECURSIVE Tokens(_), ElemTokens(_, _), MemberTokens(_, _, _)

\* inside an array, undefined serializes as null
ElemTokens(elems, i) ==
    IF i > Len(elems) THEN <<>>
    ELSE (IF i > 1 THEN <<P(",")>> ELSE <<>>)
         \o (IF elems[i] = Undef THEN << <<"l", "null">> >> ELSE Tokens(elems[i]))
         \o ElemTokens(elems, i + 1)

\* inside an object, a property whose value is undefined is left out
MemberTokens(pairs, i, first) ==
    IF i > Len(pairs) THEN <<>>
    ELSE IF pairs[i][2] = Undef THEN MemberTokens(pairs, i + 1, first)
    ELSE (IF first THEN <<>> ELSE <<P(",")>>)
         \o << <<"s", pairs[i][1]>>, P(":") >> \o Tokens(pairs[i][2])
         \o MemberTokens(pairs, i + 1, FALSE)

Tokens(v) ==
    CASE Tag(v) = "num" -> << <<"n", v[2], v[3]>> >>
      [] Tag(v) \in {"null", "nan"} -> << <<"l", "null">> >>
      [] Tag(v) = "bool" -> << <<"l", IF v[2] THEN "true" ELSE "false">> >>
      [] Tag(v) = "str" -> << <<"s", v[2]>> >>
      [] Tag(v) = "arr" -> <<P("[")>> \o ElemTokens(v[2], 1) \o <<P("]")>>
      [] Tag(v) = "obj" -> <<P("{")>> \o MemberTokens(v[2], 1, TRUE) \o <<P("}")>>

\* JSON.stringify(v): the text, or the value undefined for undefined
JSONstringify(v) ==
    IF v = Undef THEN [undefined |-> TRUE, text |-> <<>>]
    ELSE [undefined |-> FALSE, text |-> Tokens(v)]

NoParse == [ok |-> FALSE, v |-> Null, i |-> 0]
IsP(tok, c) == tok[1] = "p" /\ tok[2] = c

RECURSIVE ParseValue(_, _), ParseElements(_, _, _), ParseMembers(_, _, _)

ParseValue(t, i) ==
    IF i > Len(t) THEN NoParse
    ELSE LET tok == t[i] IN
      CASE tok[1] = "n" -> [ok |-> TRUE, v |-> <<"num", tok[2], tok[3]>>, i |-> i + 1]
        [] tok[1] = "s" -> [ok |-> TRUE, v |-> Str(tok[2]), i |-> i + 1]
        [] tok[1] = "l" ->
             [ok |-> TRUE,
              v |-> IF tok[2] = "null" THEN Null ELSE Bool(tok[2] = "true"),
              i |-> i + 1]
        [] IsP(tok, "[") ->
             IF i + 1 <= Len(t) /\ IsP(t[i + 1], "]")
             THEN [ok |-> TRUE, v |-> Arr(<<>>), i |-> i + 2]
             ELSE ParseElements(t, i + 1, <<>>)
        [] IsP(tok, "{") ->
             IF i + 1 <= Len(t) /\ IsP(t[i + 1], "}")
             THEN [ok |-> TRUE, v |-> Obj(<<>>), i |-> i + 2]
             ELSE ParseMembers(t, i + 1, Obj(<<>>))
        [] OTHER -> NoParse

ParseElements(t, i, acc) ==
    LET r == ParseValue(t, i) IN
    IF ~r.ok \/ r.i > Len(t) THEN NoParse
    ELSE IF IsP(t[r.i], ",") THEN ParseElements(t, r.i + 1, Append(acc, r.v))
    ELSE IF IsP(t[r.i], "]") THEN [ok |-> TRUE, v |-> Arr(Append(acc, r.v)), i |-> r.i + 1]
    ELSE NoParse

ParseMembers(t, i, acc) ==
    IF i + 1 > Len(t) \/ t[i][1] # "s" \/ ~IsP(t[i + 1], ":") THEN NoParse
    ELSE LET r == ParseValue(t, i + 2) IN
      IF ~r.ok \/ r.i > Len(t) THEN NoParse
      ELSE IF IsP(t[r.i], ",") THEN ParseMembers(t, r.i + 1, SetProp(acc, t[i][2], r.v))
      ELSE IF IsP(t[r.i], "}")
           THEN [ok |-> TRUE, v |-> SetProp(acc, t[i][2], r.v), i |-> r.i + 1]
      ELSE NoParse

\* the text must be one value and nothing after it
WholeText(r, text) ==
    IF r.ok /\ r.i = Len(text) + 1
    THEN [threw |-> FALSE, v |-> r.v]
    ELSE [threw |-> TRUE, v |-> Undef]

\* JSON.parse(text): the value, or a SyntaxError
JSONparse(text) ==
    WholeText(ParseValue(text, 1), text)

-----------------------------------------------------------------------------
(* window.localStorage                                                     *)

\* getItem: null for an absent key
getItem(ls, key) ==
    IF key \in DOMAIN ls THEN [isNull |-> FALSE, text |-> ls[key]]
    ELSE [isNull |-> TRUE, text |-> <<>>]

\* the text setItem stores for what JSON.stringify returned: the value
\* undefined is stored as the nine letters "undefined", which is no JSON text
StoredText(s) == IF s.undefined THEN << <<"x", "undefined">> >> ELSE s.text

setItem(ls, key, text) == [k \in DOMAIN ls \cup {key} |-> IF k = key THEN text ELSE ls[k]]

removeItem(ls, key) == [k \in DOMAIN ls \ {key} |-> ls[k]]

\* JSON.parse(localStorage.getItem(key)): null converts to the text "null"
ParseItem(item) == IF item.isNull THEN [threw |-> FALSE, v |-> Null] ELSE JSONparse(item.text)

-----------------------------------------------------------------------------
(* StorageManager (services/StorageManager.js)                             *)

\* save(key, value): localStorage.setItem(key, JSON.stringify(value)).
\* setItem raises QuotaExceededError when the store is full.
save(ls, key, value, full) ==
    IF full THEN [threw |-> TRUE, ls |-> ls]
    ELSE [threw |-> FALSE, ls |-> setItem(ls, key, StoredText(JSONstringify(value)))]

\* a load that tests the parsed value, not the stored text, for truthiness
loadParsedOrNull(ls, key) ==
    LET r == ParseItem(getItem(ls, key))
    IN IF r.threw THEN r ELSE [threw |-> FALSE, v |-> IF Truthy(r.v) THEN r.v ELSE Null]

\* load(key): value ? JSON.parse(value) : null, the stored text being falsy
\* when the key is absent (null) or the text is the empty string
load(ls, key) ==
    LET value == getItem(ls, key)
    IN IF ~value.isNull /\ Len(value.text) > 0
       THEN JSONparse(value.text)
       ELSE [threw |-> FALSE, v |-> Null]

\* a remove that empties the whole store
removeAll(ls, key) == [k \in {} |-> <<>>]

\* remove(key): localStorage.removeItem(key)
remove(ls, key) == removeItem(ls, key)

\* the keys and values the store is exercised with
StoreKeys == {"testPlot", "temp"}

TestPlot ==
    Obj(<< <<"id", IntNum(1)>>, <<"type", Str("polygon")>>,
           <<"coords", Arr(<<IntNum(51), Num(-1, 10)>>)>> >>)

JsonValues ==
    { IntNum(0), Bool(FALSE), Null, Str(""), Str("data"), Arr(<<>>),
      Arr(<<IntNum(0), Null, Arr(<<>>)>>), TestPlot }

\* values JSON cannot carry: undefined, NaN, and containers of them
OtherValues == { Undef, NaN, Obj(<< <<"a", Undef>>, <<"b", IntNum(1)>> >>) }

\* texts another script of the origin may have left under a key
ForeignTexts == { <<>>, <<P("["), <<"n", 1, 1>>, P(",")>>, << <<"n", 5, 1>> >> }

RECURSIVE IsJsonValue(_)
IsJsonValue(v) ==
    CASE Tag(v) \in {"undef", "nan"} -> FALSE
      [] Tag(v) = "arr" -> \A i \in 1..Len(v[2]) : IsJsonValue(v[2][i])
      [] Tag(v) = "obj" -> \A i \in 1..Len(v[2]) : IsJsonValue(v[2][i][2])
      [] OTHER -> TRUE

NoOp == [op |-> "none", key |-> "", arg |-> Undef, threw |-> FALSE, result |-> Undef]
NeverSaved == <<"none">>
Removed == <<"removed">>
Saved(v, over) == <<"saved", v, over>>

StorageIdle ==
    /\ lastOp = NoOp
    /\ lastSaved = [k \in StoreKeys |-> NeverSaved]

Save(k, v, full) ==
    LET r == save(localStorage, k, v, full) IN
    /\ localStorage' = r.ls
    /\ lastOp' = [op |-> "save", key |-> k, arg |-> v, threw |-> r.threw, result |-> Undef]
    /\ lastSaved' = IF r.threw THEN lastSaved
                    ELSE [lastSaved EXCEPT ![k] = Saved(v, k \in DOMAIN localStorage)]

Load(k) ==
    LET r == load(localStorage, k) IN
    /\ lastOp' = [op |-> "load", key |-> k, arg |-> Undef, threw |-> r.threw, result |-> r.v]
    /\ UNCHANGED <<localStorage, lastSaved>>

Remove(k) ==
    /\ localStorage' = remove(localStorage, k)
    /\ lastOp' = [op |-> "remove", key |-> k, arg |-> Undef, threw |-> FALSE, result |-> Undef]
    /\ lastSaved' = [lastSaved EXCEPT ![k] = IF lastSaved[k][1] = "saved" THEN Removed ELSE @]

-----------------------------------------------------------------------------
(* WeatherService (services/WeatherService.js): the pure part              *)

cacheKey == "beeLandr_weather_cache"
cacheDuration == 24 * 60 * 60 * 1000

Ok(v) == [threw |-> FALSE, v |-> v]
Throw == [threw |-> TRUE, v |-> Undef]

\* a - b on numbers
JSSub(a, b) ==
    LET x == ToNumber(a)
        y == ToNumber(b)
    IN IF IsNum(x) /\ IsNum(y)
       THEN Num(x[2] * y[3] - y[2] * x[3], x[3] * y[3])
       ELSE NaN

\* arr.reduce((a, b) => a + b, 0)
RECURSIVE ReduceSum(_, _, _)
ReduceSum(elems, i, acc) ==
    IF i > Len(elems) THEN acc ELSE ReduceSum(elems, i + 1, JSAdd(acc, elems[i]))

\* calculateAverage(arr): 0 for a missing or empty series; a series that is
\* no array has no reduce method (TypeError)
calculateAverage(arr) ==
    IF ~Truthy(arr) THEN Ok(IntNum(0))
    ELSE IF ~IsArr(arr) THEN Throw
    ELSE IF Len(arr[2]) = 0 THEN Ok(IntNum(0))
    ELSE Ok(JSDivInt(ReduceSum(arr[2], 1, IntNum(0)), Len(arr[2])))

\* optimalRange(value): the contribution of one species
optimalRange(value) ==
    IF JSLt(value, IntNum(50)) THEN IntNum(0)
    ELSE IF JSLt(value, IntNum(500))
      THEN MathRound(JSMulInt(JSDivInt(value, 500), 50))
    ELSE IF JSLt(value, IntNum(2000))
      THEN JSAdd(IntNum(50), MathRound(JSMulInt(JSDivInt(JSSub(value, IntNum(500)), 1500), 30)))
    ELSE IF JSLt(value, IntNum(5000))
      THEN JSAdd(IntNum(80), MathRound(JSMulInt(JSDivInt(JSSub(value, IntNum(2000)), 3000), 15)))
    ELSE IntNum(100)

\* the forEach over Object.values(pollenAverages): <<score, contributingPollenTypes>>
RECURSIVE ForageSum(_, _, _, _)
ForageSum(pairs, i, score, n) ==
    IF i > Len(pairs) THEN <<score, n>>
    ELSE IF JSGt(pairs[i][2], IntNum(0))
      THEN ForageSum(pairs, i + 1, JSAdd(score, optimalRange(pairs[i][2])), n + 1)
    ELSE ForageSum(pairs, i + 1, score, n)

\* lines 150-154: the sum is averaged over the contributing species plus one
\* when any contributes, and clamped to 0..100
AveragedScore(r) ==
    MathMin(IntNum(100),
            MathMax(IntNum(0),
                    IF r[2] > 0 THEN MathRound(JSDivInt(r[1], r[2] + 1)) ELSE r[1]))

\* a forage index whose running sum starts at 0 instead of the baseline
calculateForageIndexNoBaseline(pollenAverages) ==
    AveragedScore(ForageSum(pollenAverages[2], 1, IntNum(0), 0))

\* calculateForageIndex(pollenAverages): the running sum starts at the baseline 50
calculateForageIndex(pollenAverages) ==
    AveragedScore(ForageSum(pollenAverages[2], 1, IntNum(50), 0))

\* getWeatherCondition(temp, rainfall, windSpeed)
getWeatherCondition(temp, rainfall, windSpeed) ==
    IF JSLt(temp, IntNum(0)) THEN "Cold"
    ELSE IF JSLt(temp, IntNum(10)) THEN "Cool"
    ELSE IF JSLt(temp, IntNum(20)) THEN "Mild"
    ELSE IF JSLt(temp, IntNum(25)) THEN "Warm"
    ELSE "Hot"

\* a temperature penalty whose bands include their end points
temperaturePenaltyInclusive(temp) ==
    LET le(a, b) == ~JSGt(a, IntNum(b))
        ge(a, b) == ~JSLt(a, IntNum(b))
    IN IF le(temp, 10) \/ ge(temp, 30) THEN 25
       ELSE IF le(temp, 15) \/ ge(temp, 25) THEN 15
       ELSE IF le(temp, 18) \/ ge(temp, 23) THEN 5
       ELSE 0

\* the temperature penalty of calculateBeeScore (ideal: 15-25)
temperaturePenalty(temp) ==
    IF JSLt(temp, IntNum(10)) \/ JSGt(temp, IntNum(30)) THEN 25
    ELSE IF JSLt(temp, IntNum(15)) \/ JSGt(temp, IntNum(25)) THEN 15
    ELSE IF JSLt(temp, IntNum(18)) \/ JSGt(temp, IntNum(23)) THEN 5
    ELSE 0

\* the humidity penalty of calculateBeeScore (ideal: 50-70%)
humidityPenalty(humidity) ==
    IF JSLt(humidity, IntNum(30)) \/ JSGt(humidity, IntNum(80)) THEN 15
    ELSE IF JSLt(humidity, IntNum(40)) \/ JSGt(humidity, IntNum(75)) THEN 5
    ELSE 0

\* the wind penalty of calculateBeeScore (ideal: < 20 km/h)
windPenalty(windSpeed) ==
    IF JSGt(windSpeed, IntNum(40)) THEN 20
    ELSE IF JSGt(windSpeed, IntNum(30)) THEN 10
    ELSE IF JSGt(windSpeed, IntNum(20)) THEN 5
    ELSE 0

\* the rainfall penalty of calculateBeeScore (too dry, too wet)
rainfallPenalty(rainfall) ==
    IF JSLt(rainfall, IntNum(300)) THEN 10
    ELSE IF JSGt(rainfall, IntNum(2000)) THEN 10
    ELSE 0

\* calculateBeeScore(temp, humidity, rainfall, windSpeed, forageIndex = 50):
\* score * 0.9 + forageIndex * 0.1, clamped to 0..100
calculateBeeScore(temp, humidity, rainfall, windSpeed, forageIndex) ==
    LET fi == IF forageIndex = Undef THEN IntNum(50) ELSE forageIndex
        penalised == 100 - temperaturePenalty(temp) - humidityPenalty(humidity)
                         - windPenalty(windSpeed) - rainfallPenalty(rainfall)
        score == JSAdd(JSDivInt(JSMulInt(IntNum(penalised), 9), 10), JSDivInt(fi, 10))
    IN MathMax(IntNum(0), MathMin(IntNum(100), score))

\* getDefaultWeather()
getDefaultWeather ==
    Obj(<< <<"temperature", IntNum(15)>>, <<"minTemp", IntNum(10)>>,
           <<"maxTemp", IntNum(20)>>, <<"humidity", IntNum(60)>>,
           <<"rainfall", IntNum(800)>>, <<"windSpeed", IntNum(15)>>,
           <<"condition", Str("Data Unavailable")>>, <<"beeScore", IntNum(50)>> >>)

\* the rounding to one decimal: Math.round(x * 10) / 10
RoundOneDecimal(x) == JSDivInt(MathRound(JSMulInt(x, 10)), 10)

\* the averages of processWeatherData (lines 174-179); a series that cannot
\* be reduced raises a TypeError
AveragesOf(max, min, rain, wind, hum) ==
    IF max.threw \/ min.threw \/ ~IsArr(rain) \/ wind.threw \/ hum.threw THEN Throw
    ELSE Ok([avgMaxTemp |-> max.v, avgMinTemp |-> min.v,
             avgTemp |-> JSDivInt(JSAdd(max.v, min.v), 2),
             totalRainfall |-> ReduceSum(rain[2], 1, IntNum(0)),
             avgWindSpeed |-> wind.v, avgHumidity |-> hum.v])

Averages(daily) ==
    AveragesOf(calculateAverage(Get(daily, "temperature_2m_max")),
               calculateAverage(Get(daily, "temperature_2m_min")),
               Get(daily, "precipitation_sum"),
               calculateAverage(Get(daily, "windspeed_10m_max")),
               calculateAverage(Get(daily, "relative_humidity_2m_max")))

\* the guard of processWeatherData (lines 165-171)
HasForecast(data) ==
    LET daily == Get(data, "daily")
        tmax == Get(daily, "temperature_2m_max")
    IN Truthy(daily) /\ Truthy(tmax) /\ ~(IsArr(tmax) /\ Len(tmax[2]) = 0)

\* the object processWeatherData returns (lines 181-195): the bee score is
\* computed without a forage index
Snapshot(a) ==
    Obj(<< <<"temperature", RoundOneDecimal(a.avgTemp)>>,
           <<"minTemp", RoundOneDecimal(a.avgMinTemp)>>,
           <<"maxTemp", RoundOneDecimal(a.avgMaxTemp)>>,
           <<"humidity", MathRound(a.avgHumidity)>>,
           <<"rainfall", RoundOneDecimal(a.totalRainfall)>>,
           <<"windSpeed", RoundOneDecimal(a.avgWindSpeed)>>,
           <<"condition", Str(getWeatherCondition(a.avgTemp, a.totalRainfall, a.avgWindSpeed))>>,
           <<"beeScore", calculateBeeScore(a.avgTemp, a.avgHumidity, a.totalRainfall,
                                           a.avgWindSpeed, Undef)>> >>)

SnapshotOfAverages(r) == IF r.threw THEN Throw ELSE Ok(Snapshot(r.v))

\* processWeatherData(data): reading a property of null or undefined raises
\* a TypeError
processWeatherData(data) ==
    IF IsNullish(data) THEN Throw
    ELSE IF ~HasForecast(data) THEN Ok(getDefaultWeather)
    ELSE SnapshotOfAverages(Averages(Get(data, "daily")))

\* the six species, in the order of the pollenTypes literal
Species == <<"birch", "grass", "ragweed", "alder", "mugwort", "olive">>

\* hourly.<species>_pollen || []; the series of the model are arrays or missing
SpeciesSeries(hourly, type) ==
    LET values == Get(hourly, type \o "_pollen")
    IN IF Truthy(values) /\ IsArr(values) THEN values ELSE Arr(<<>>)

\* the forEach over Object.entries(pollenTypes): the averages of the species
\* with a non-empty series
RECURSIVE PollenAverages(_, _, _)
PollenAverages(hourly, i, acc) ==
    IF i > Len(Species) THEN acc
    ELSE LET values == SpeciesSeries(hourly, Species[i])
         IN IF Len(values[2]) > 0
            THEN PollenAverages(hourly, i + 1,
                                SetProp(acc, Species[i], calculateAverage(values).v))
            ELSE PollenAverages(hourly, i + 1, acc)

\* the reduce that picks the dominant species, starting from ["none", 0]
RECURSIVE Dominant(_, _, _)
Dominant(pairs, i, a) ==
    IF i > Len(pairs) THEN a[1]
    ELSE Dominant(pairs, i + 1, IF JSGt(pairs[i][2], a[2]) THEN pairs[i] ELSE a)

\* the pollen block of the returned object (lines 116-121); totalScore is the
\* sum of the averages
PollenBlock(pollenAverages) ==
    Obj(<< <<"averages", pollenAverages>>,
           <<"dominant", Str(Dominant(pollenAverages[2], 1, <<"none", IntNum(0)>>))>>,
           <<"totalScore", ReduceSum([i \in 1..Len(pollenAverages[2]) |->
                                         pollenAverages[2][i][2]], 1, IntNum(0))>>,
           <<"forageIndex", calculateForageIndex(pollenAverages)>> >>)

\* integratePollenData(weatherData, pollenData): hourly.birch_pollen raises a
\* TypeError when pollenData has no hourly object
integratePollenData(weatherData, pollenData) ==
    IF IsNullish(Get(pollenData, "hourly")) THEN Throw
    ELSE Ok(SetProp(weatherData, "pollen",
                    PollenBlock(PollenAverages(Get(pollenData, "hourly"), 1, Obj(<<>>)))))

-----------------------------------------------------------------------------
(* WeatherService: the cache                                               *)

Pad4(k) ==
    IF k < 10 THEN "000" \o ToString(k)
    ELSE IF k < 100 THEN "00" \o ToString(k)
    ELSE IF k < 1000 THEN "0" \o ToString(k)
    ELSE ToString(k)

\* x.toFixed(4): the magnitude rounded to four decimals, halves upwards,
\* behind the sign of x
toFixed4(x) ==
    LET r == (2 * Abs(x[2]) * 10000 + x[3]) \div (2 * x[3])
    IN (IF x[2] < 0 THEN "-" ELSE "")
       \o ToString(r \div 10000) \o "." \o Pad4(r % 10000)

\* `${lat.toFixed(4)}_${lng.toFixed(4)}`
EntryKey(lat, lng) == toFixed4(lat) \o "_" \o toFixed4(lng)

\* JSON.parse(localStorage.getItem(this.cacheKey)) || {}
OrEmptyObject(r) == IF r.threw THEN r ELSE Ok(IF Truthy(r.v) THEN r.v ELSE Obj(<<>>))
ReadCache(ls) == OrEmptyObject(ParseItem(getItem(ls, cacheKey)))

\* an expiry test that still serves an entry exactly 24 hours old
IsFreshInclusive(cached, t) ==
    /\ Truthy(cached)
    /\ IsNum(JSSub(IntNum(t), Get(cached, "timestamp")))
    /\ ~JSGt(JSSub(IntNum(t), Get(cached, "timestamp")), IntNum(cacheDuration))

\* an expiry test that keeps an entry for as long as 24 hours have passed
IsFreshReversed(cached, t) ==
    /\ Truthy(cached)
    /\ JSGt(JSSub(IntNum(t), Get(cached, "timestamp")), IntNum(cacheDuration))

\* cached && Date.now() - cached.timestamp < this.cacheDuration
IsFresh(cached, t) ==
    /\ Truthy(cached)
    /\ JSLt(JSSub(IntNum(t), Get(cached, "timestamp")), IntNum(cacheDuration))

\* getFromCache(lat, lng) at time t: what it returns and the store it leaves.
\* A read error and a failed write (full) are caught and give null.
LookUp(r, key, ls, t, full) ==
    IF r.threw THEN [data |-> Null, ls |-> ls]
    ELSE IF IsFresh(Get(r.v, key), t) THEN [data |-> Get(Get(r.v, key), "data"), ls |-> ls]
    ELSE IF full THEN [data |-> Null, ls |-> ls]
    ELSE [data |-> Null,
          ls |-> setItem(ls, cacheKey,
                         StoredText(JSONstringify(IF IsObj(r.v) THEN DelProp(r.v, key)
                                                  ELSE r.v)))]

getFromCache(ls, t, lat, lng, full) == LookUp(ReadCache(ls), EntryKey(lat, lng), ls, t, full)

\* saveToCache(lat, lng, data) at time t: the store it leaves and whether it
\* wrote.  A read error, a property set on a primitive (TypeError in strict
\* code) and a failed write are caught; a property set on an array is dropped
\* by JSON.stringify.
Store(r, key, entry, ls, full) ==
    IF r.threw \/ full \/ ~(IsObj(r.v) \/ IsArr(r.v)) THEN [ls |-> ls, wrote |-> FALSE]
    ELSE [ls |-> setItem(ls, cacheKey,
                         StoredText(JSONstringify(IF IsObj(r.v) THEN SetProp(r.v, key, entry)
                                                  ELSE r.v))),
          wrote |-> IsObj(r.v)]

saveToCache(ls, t, lat, lng, data, full) ==
    Store(ReadCache(ls), EntryKey(lat, lng),
          Obj(<< <<"data", data>>, <<"timestamp", IntNum(t)>> >>), ls, full)

-----------------------------------------------------------------------------
(* WeatherService.getWeatherForPlot: one process per invocation            *)

\* how many invocations the model follows
MaxCalls == 2
Calls == 1..MaxCalls

\* the instants the clock is read at, in milliseconds from the first: an entry
\* captured one millisecond before the first is 24 hours old at the second
Instants == {0, cacheDuration - 1}

\* coordinates: 1.50004 rounds down to the key 1.5000_-0.0900, 1.50006 up to
\* the key 1.5001_-0.0900
Coordinates ==
    { <<Num(150004, 100000), Num(-9, 100)>>, <<Num(150006, 100000), Num(-9, 100)>> }

Series(elems) == Arr(elems)
Daily(tmax, tmin, rain, wind, hum) ==
    Obj(<< <<"temperature_2m_max", tmax>>, <<"temperature_2m_min", tmin>>,
           <<"precipitation_sum", rain>>, <<"windspeed_10m_max", wind>>,
           <<"relative_humidity_2m_max", hum>> >>)

MildWeather ==
    Obj(<< <<"daily", Daily(Series(<<IntNum(22), IntNum(24)>>), Series(<<IntNum(16), IntNum(18)>>),
                            Series(<<IntNum(400), Num(8001, 20)>>),
                            Series(<<IntNum(10), IntNum(11)>>),
                            Series(<<IntNum(60), IntNum(61)>>))>> >>)
HotWeather ==
    Obj(<< <<"daily", Daily(Series(<<IntNum(33)>>), Series(<<IntNum(29), Null>>),
                            Series(<<IntNum(100)>>), Series(<<IntNum(45)>>),
                            Series(<<IntNum(85)>>))>> >>)
\* a body without the daily object, as the API's error bodies are
NoDaily == Obj(<< <<"error", Bool(TRUE)>> >>)
\* a daily object that lacks the minimum temperatures
NoMinTemp ==
    Obj(<< <<"daily", Obj(<< <<"temperature_2m_max", Series(<<IntNum(22), IntNum(24)>>)>>,
                             <<"precipitation_sum", Series(<<IntNum(800)>>)>>,
                             <<"windspeed_10m_max", Series(<<IntNum(10)>>)>>,
                             <<"relative_humidity_2m_max", Series(<<IntNum(60)>>)>> >>)>> >>)
\* a daily object that lacks the precipitation
NoRain ==
    Obj(<< <<"daily", Obj(<< <<"temperature_2m_max", Series(<<IntNum(22)>>)>>,
                             <<"temperature_2m_min", Series(<<IntNum(16)>>)>> >>)>> >>)
\* a series with a text where a number belongs
TextInSeries ==
    Obj(<< <<"daily", Daily(Series(<<Str("n/a"), IntNum(24)>>), Series(<<IntNum(16)>>),
                            Series(<<IntNum(800)>>), Series(<<IntNum(10)>>),
                            Series(<<IntNum(60)>>))>> >>)

WeatherBodies == {MildWeather, NoDaily, NoMinTemp, NoRain, TextInSeries}

RichPollen ==
    Obj(<< <<"hourly", Obj(<< <<"birch_pollen", Series(<<IntNum(5000), IntNum(7000)>>)>>,
                              <<"grass_pollen", Series(<<IntNum(100), IntNum(300)>>)>>,
                              <<"olive_pollen", Series(<<>>)>> >>)>> >>)
NoHourly == Obj(<< <<"error", Bool(TRUE)>> >>)

PollenBodies == {RichPollen, NoHourly, Null}

\* what a response body can be: the text of one of the bodies, or no JSON at all
Undecodable == << <<"x", "<html>">> >>
WeatherTexts == {Tokens(b) : b \in WeatherBodies} \cup {Undecodable}
PollenTexts == {Tokens(b) : b \in PollenBodies} \cup {Undecodable}

\* how a fetch settles: rejected, or a response that is ok or not
FetchOutcomes == {"reject", "notok", "ok"}

\* what the store may hold under the cache key when the page opens
SnapshotOf(body) == processWeatherData(body).v
EarlierEntry(data, t) == Obj(<< <<"data", data>>, <<"timestamp", IntNum(t)>> >>)
InitialCaches ==
    {
      Tokens(Obj(<< <<"1.5000_-0.0900", EarlierEntry(SnapshotOf(HotWeather), -1)>> >>)),
      Tokens(Obj(<< <<"1.5000_-0.0900", Obj(<< <<"data", SnapshotOf(HotWeather)>> >>)>> >>)),
      <<P("{"), <<"s", "1.5000_-0.0900">>>> }

\* an invocation: where it stands, its arguments and locals, and for the
\* record when it started, the requests it issued, how it ended (a cache hit,
\* a fetch, or the catch), whether it wrote the cache, and what it returned
IdleCall ==
    [pc |-> "idle", lat |-> IntNum(0), lng |-> IntNum(0), startedAt |-> 0,
     requests |-> <<>>, weatherData |-> Undef,
     outcome |-> "none", wrote |-> FALSE, result |-> Undef]

WeatherIdle ==
    /\ now = 0
    /\ calls = [c \in Calls |-> IdleCall]

\* the catch of getWeatherForPlot: return this.getDefaultWeather()
Caught(call) ==
    [call EXCEPT !.pc = "done", !.outcome = "caught", !.weatherData = Undef,
                 !.result = getDefaultWeather]

\* lines 25-39: the cache is consulted; on a miss the forecast is requested.
\* A page view makes one invocation, and the views follow one another.
StartCall(c, lat, lng, full) ==
    /\ calls[c].pc = "idle"
    /\ \A b \in Calls : b < c => calls[b].pc = "done"
    /\ LET r == getFromCache(localStorage, now, lat, lng, full)
           call == [calls[c] EXCEPT !.lat = lat, !.lng = lng, !.startedAt = now]
       IN /\ localStorage' = r.ls
          /\ calls' = [calls EXCEPT ![c] =
                IF Truthy(r.data)
                THEN [call EXCEPT !.pc = "done", !.outcome = "hit", !.result = r.data]
                ELSE [call EXCEPT !.pc = "awaitWeather", !.requests = <<"weather">>]]
    /\ UNCHANGED now

\* lines 39-41: the forecast fetch settles; a response that is ok is decoded
WeatherFetchSettles(c, outcome) ==
    /\ calls[c].pc = "awaitWeather"
    /\ calls' = [calls EXCEPT ![c] =
          IF outcome = "ok" THEN [@ EXCEPT !.pc = "awaitWeatherJson"] ELSE Caught(@)]
    /\ UNCHANGED <<localStorage, now>>

\* the pollen request going out whether or not the body could be decoded
WeatherJsonSettlesEitherWay(c, text) ==
    /\ calls[c].pc = "awaitWeatherJson"
    /\ LET r == JSONparse(text)
       IN calls' = [calls EXCEPT ![c] =
            [@ EXCEPT !.pc = "awaitPollen", !.weatherData = IF r.threw THEN Undef ELSE r.v,
                      !.requests = Append(@, "pollen")]]
    /\ UNCHANGED <<localStorage, now>>

\* lines 41-56: the body is decoded and the pollen request goes out
WeatherJsonSettles(c, text) ==
    /\ calls[c].pc = "awaitWeatherJson"
    /\ LET r == JSONparse(text)
       IN calls' = [calls EXCEPT ![c] =
            IF r.threw THEN Caught(@)
            ELSE [@ EXCEPT !.pc = "awaitPollen", !.weatherData = r.v,
                           !.requests = Append(@, "pollen")]]
    /\ UNCHANGED <<localStorage, now>>

\* lines 64-76: the snapshot is built, cached and returned
\* lines 64-67: pollenData ? integratePollenData(processedData, pollenData) : processedData
FinalData(processedData, pollenData) ==
    IF processedData.threw \/ ~Truthy(pollenData) THEN processedData
    ELSE integratePollenData(processedData.v, pollenData)

\* lines 69-72: the final data is returned, cached or not
Return(call, finalData, saved) ==
    [call |-> [call EXCEPT !.pc = "done", !.outcome = "fetched", !.weatherData = Undef,
                           !.wrote = saved.wrote, !.result = finalData],
     ls |-> saved.ls]

CacheAndReturn(call, finalData, ls, t, full) ==
    IF finalData.threw THEN [call |-> Caught(call), ls |-> ls]
    ELSE Return(call, finalData.v, saveToCache(ls, t, call.lat, call.lng, finalData.v, full))

Finished(call, pollenData, ls, t, full) ==
    CacheAndReturn(call, FinalData(processWeatherData(call.weatherData), pollenData),
                   ls, t, full)

\* lines 54-62: the pollen fetch settles; a rejection is caught and a response
\* that is not ok leaves pollenData null
PollenFetchSettles(c, outcome, full) ==
    /\ calls[c].pc = "awaitPollen"
    /\ LET f == Finished(calls[c], Null, localStorage, now, full)
       IN IF outcome = "ok"
          THEN /\ calls' = [calls EXCEPT ![c].pc = "awaitPollenJson"]
               /\ UNCHANGED localStorage
          ELSE /\ calls' = [calls EXCEPT ![c] = f.call]
               /\ localStorage' = f.ls
    /\ UNCHANGED now

\* lines 58-76: the pollen body is decoded (a failure is caught)
PollenJsonSettles(c, text, full) ==
    /\ calls[c].pc = "awaitPollenJson"
    /\ LET r == JSONparse(text)
           f == Finished(calls[c], IF r.threw THEN Null ELSE r.v, localStorage, now, full)
       IN /\ calls' = [calls EXCEPT ![c] = f.call]
          /\ localStorage' = f.ls
    /\ UNCHANGED now

\* time passes
Tick(t) ==
    /\ t > now
    /\ now' = t
    /\ UNCHANGED <<localStorage, calls>>

-----------------------------------------------------------------------------
(* calculateForageIndex and calculateBeeScore as operations                *)

Absent == <<"absent">>
SpeciesSet == {Species[i] : i \in 1..Len(Species)}

\* the averages an evaluation starts from, and those one species is raised to
BaseLevels == {Absent, IntNum(0), IntNum(5000)}
Levels ==
    { IntNum(0), IntNum(10), IntNum(50), Num(999, 2), IntNum(500), IntNum(1999),
      IntNum(2000), IntNum(4999), IntNum(5000), IntNum(9000) }

\* the pollenAverages object of an assignment of averages to species
RECURSIVE AveragesObject(_, _)
AveragesObject(f, i) ==
    IF i > Len(Species) THEN <<>>
    ELSE (IF f[Species[i]] = Absent THEN <<>> ELSE << <<Species[i], f[Species[i]]>> >>)
         \o AveragesObject(f, i + 1)

NoPrev == [arg |-> <<>>, result |-> Undef, species |-> ""]

ForageIdle ==
    /\ fiArg = [s \in SpeciesSet |-> Absent]
    /\ fiResult = Undef
    /\ fiPrev = NoPrev

\* calculateForageIndex is called on the averages
EvalForage ==
    /\ fiResult = Undef
    /\ fiResult' = calculateForageIndex(Obj(AveragesObject(fiArg, 1)))
    /\ UNCHANGED <<fiArg, fiPrev>>

\* it is called again with the average of one species raised
RaiseOne(s, v) ==
    /\ fiResult # Undef
    /\ fiPrev = NoPrev
    /\ fiArg[s] # Absent
    /\ JSGt(v, fiArg[s])
    /\ fiPrev' = [arg |-> fiArg, result |-> fiResult, species |-> s]
    /\ fiArg' = [fiArg EXCEPT ![s] = v]
    /\ fiResult' = calculateForageIndex(Obj(AveragesObject(fiArg', 1)))

Temperatures ==
    { IntNum(9), IntNum(10), Num(29, 2), IntNum(15), IntNum(17), IntNum(18), IntNum(20),
      IntNum(23), IntNum(24), IntNum(25), IntNum(26), IntNum(30), IntNum(31) }
Humidities ==
    { IntNum(29), IntNum(30), IntNum(39), IntNum(40), IntNum(60), IntNum(75),
      IntNum(76), IntNum(80), IntNum(81) }
WindSpeeds == { IntNum(10), IntNum(20), IntNum(21), IntNum(30), IntNum(31), IntNum(40), IntNum(41) }
Rainfalls == { IntNum(299), IntNum(300), IntNum(800), IntNum(2000), IntNum(2001) }
ForageIndexes == { Undef, IntNum(0), IntNum(50), IntNum(57), IntNum(100) }

ScoreIdle ==
    /\ bsArgs = [temp |-> IntNum(20), humidity |-> IntNum(60), rainfall |-> IntNum(800),
                 windSpeed |-> IntNum(10), forageIndex |-> Undef]
    /\ bsResult = Undef

\* calculateBeeScore is called on the arguments
EvalScore ==
    /\ bsResult = Undef
    /\ bsResult' = calculateBeeScore(bsArgs.temp, bsArgs.humidity, bsArgs.rainfall,
                                     bsArgs.windSpeed, bsArgs.forageIndex)
    /\ UNCHANGED bsArgs

-----------------------------------------------------------------------------
(* The application controller (main.js): values it computes with          *)

\* the texts the model reads character by character, spelled out
Spellings ==
    { <<>>, <<"0">>, <<"1", "0">>, <<"a", "b", "c">>,
      <<"0", " ", "H", "i", "v", "e", "s">>,
      <<"3", "7", " ", "H", "i", "v", "e", "s">>,
      <<"5", " ", "H", "i", "v", "e", "s">> }

RECURSIVE Concat(_, _)
Concat(chars, i) == IF i > Len(chars) THEN "" ELSE chars[i] \o Concat(chars, i + 1)

\* the characters of a text
Spell(s) == CHOOSE chars \in Spellings : Concat(chars, 1) = s

IsDigit(c) == \E d \in 0..9 : ToString(d) = c
DigitValue(c) == CHOOSE d \in 0..9 : ToString(d) = c

\* the digits parseInt consumes from position i on: <<value, how many>>
RECURSIVE LeadingDigits(_, _, _, _)
LeadingDigits(chars, i, value, n) ==
    IF i > Len(chars) \/ ~IsDigit(chars[i]) THEN <<value, n>>
    ELSE LeadingDigits(chars, i + 1, 10 * value + DigitValue(chars[i]), n + 1)

RECURSIVE SkipSpaces(_, _)
SkipSpaces(chars, i) ==
    IF i <= Len(chars) /\ chars[i] = " " THEN SkipSpaces(chars, i + 1) ELSE i

Signed(digits, negative) ==
    IF digits[2] = 0 THEN NaN ELSE IntNum(IF negative THEN -digits[1] ELSE digits[1])

ParseFrom(chars, i) ==
    IF i <= Len(chars) /\ chars[i] \in {"-", "+"}
    THEN Signed(LeadingDigits(chars, i + 1, 0, 0), chars[i] = "-")
    ELSE Signed(LeadingDigits(chars, i, 0, 0), FALSE)

\* parseInt(v): the argument is converted to a string; leading white space is
\* skipped, then an optional sign and the longest run of decimal digits are
\* read; NaN when there is no digit.  A number converts to its decimal text,
\* whose integer part is the number truncated towards zero.
parseInt(v) ==
    CASE Tag(v) = "num" -> IntNum(IF v[2] < 0 THEN -((-v[2]) \div v[3]) ELSE v[2] \div v[3])
      [] Tag(v) = "str" -> ParseFrom(Spell(v[2]), SkipSpaces(Spell(v[2]), 1))
      [] OTHER -> NaN

\* a || b
JSOr(a, b) == IF Truthy(a) THEN a ELSE b

\* a <= b on numbers: false when either side is NaN
JSLe(a, b) == IsNum(ToNumber(a)) /\ IsNum(ToNumber(b)) /\ ~JSLt(b, a)

ROLES == [LANDOWNER |-> "landowner", BEEKEEPER |-> "beekeeper"]

\* ROLE_SETTINGS[role].draw
RoleDraws(role) == role = ROLES.LANDOWNER

\* isValidRole(role): Object.values(ROLES).includes(role)
isValidRole(role) == role \in {Str(ROLES.LANDOWNER), Str(ROLES.BEEKEEPER)}

-----------------------------------------------------------------------------
(* MapManager: the draw layer and the layer of loaded features             *)

NoPlotDrawn == "No plot drawn yet."

\* the texts updateSidebarStats writes for a drawn polygon or rectangle of the
\* given geodesic area: one hive per 10 square metres
AreaText(area) == ToString(area) \o " m²"
HiveText(area) == ToString(area \div 10) \o " Hives"

\* the Draw CREATED handler: the previous unsaved drawing is replaced
Created(m, layer) == [m EXCEPT !.drawnItems = <<layer>>]

\* getDrawnLayer(): the last layer of drawnItems, or null
getDrawnLayer(m) ==
    IF Len(m.drawnItems) > 0 THEN m.drawnItems[Len(m.drawnItems)] ELSE Null

\* a clearDrawLayer() that leaves the drawing where it is
keepDrawLayer(m) == m

\* clearDrawLayer()
clearDrawLayer(m) == [m EXCEPT !.drawnItems = <<>>]

\* a clearAll() that leaves the loaded features where they are
clearAllButFeatures(m) == [m EXCEPT !.drawnItems = <<>>]

\* clearAll(): both layers are emptied (the sidebar texts are reset with it)
clearAll(m) == [m EXCEPT !.drawnItems = <<>>, !.featureGroup = <<>>]

\* enableDraw(enable)
enableDraw(m, enable) == [m EXCEPT !.drawControl = enable]

\* displayPolygon(land): nothing is added without coordinates
displayPolygon(m, land) ==
    IF ~Truthy(Get(land, "coordinates")) THEN m
    ELSE [m EXCEPT !.featureGroup = Append(@, <<"polygon", land>>)]

\* displayMarker(land): nothing is added when lat and lng are both falsy
displayMarker(m, land) ==
    IF ~Truthy(Get(land, "lat")) /\ ~Truthy(Get(land, "lng")) THEN m
    ELSE [m EXCEPT !.featureGroup = Append(@, <<"marker", land>>)]

-----------------------------------------------------------------------------
(* The application controller: its methods                                 *)

\* clearAll() also resets the two sidebar texts
SidebarReset(pg) == [pg EXCEPT !.areaDisplay = NoPlotDrawn, !.hiveDisplay = "0 Hives"]

\* line 255: the plots whose parsed hives, or 0, are at most min
AtMost(plots, min) ==
    SelectSeq(plots, LAMBDA p : JSLe(JSOr(parseInt(Get(p, "hives")), IntNum(0)), min))

\* line 255 without its `|| 0`
AtMostNoDefault(plots, min) ==
    SelectSeq(plots, LAMBDA p : JSLe(parseInt(Get(p, "hives")), min))

\* the hive-capacity filter without the `|| 0` of line 255
HiveFilteredNoDefault(plots, hiveCapacity) ==
    IF Truthy(hiveCapacity) THEN AtMostNoDefault(plots, parseInt(hiveCapacity)) ELSE plots

\* lines 253-256: the hive-capacity filter, when the ceiling is truthy
HiveFiltered(plots, hiveCapacity) ==
    IF Truthy(hiveCapacity) THEN AtMost(plots, parseInt(hiveCapacity)) ELSE plots

\* lines 258-262: the land-type filter, when the constraint is truthy
TypeFiltered(plots, landType) ==
    IF Truthy(landType)
    THEN SelectSeq(plots, LAMBDA p : Get(p, "landType") = landType)
    ELSE plots

\* the land-type filter applied to allPlots instead of the plots the hive
\* filter kept
FilteredLastWins(st) ==
    IF Truthy(st.filters.landType) THEN TypeFiltered(st.allPlots, st.filters.landType)
    ELSE HiveFiltered(st.allPlots, st.filters.hiveCapacity)

\* lines 251-262
Filtered(st) ==
    TypeFiltered(HiveFiltered(st.allPlots, st.filters.hiveCapacity), st.filters.landType)

\* lines 265-269: polygons go to displayPolygon, all others to displayMarker
RECURSIVE Display(_, _, _)
Display(m, plots, i) ==
    IF i > Len(plots) THEN m
    ELSE Display(IF Get(plots[i], "type") = Str("polygon")
                 THEN displayPolygon(m, plots[i])
                 ELSE displayMarker(m, plots[i]),
                 plots, i + 1)

FoundText(n) == "Found " \o ToString(n) \o " plots matching your criteria."

\* lines 271-273: the count is reported to a beekeeper
Reported(st, pg, n) ==
    IF st.role = Str(ROLES.BEEKEEPER) THEN [pg EXCEPT !.feedback = FoundText(n)] ELSE pg

Rendered(st, m, pg, filtered) ==
    [map |-> Display(clearAll(m), filtered, 1),
     page |-> Reported(st, SidebarReset(pg), Len(filtered))]

\* applyFilters(): the map and the page it leaves; allPlots is only read
applyFilters(st, m, pg) == Rendered(st, m, pg, Filtered(st))

\* the elements of a stored user_plots value, for `[...seedPlots, ...userPlots]`;
\* a value that cannot be spread raises a TypeError
Spread(v) == IF IsArr(v) THEN Ok(v[2]) ELSE Throw

\* line 242 and 169: this.storage.load("user_plots") || []
LoadOrEmpty(r) == IF r.threw THEN Throw ELSE Ok(JSOr(r.v, Arr(<<>>)))
UserPlots(ls) == LoadOrEmpty(load(ls, "user_plots"))

\* line 243 with the two lists the other way round
MergedUserFirst(seedPlots, userPlots) ==
    IF seedPlots.threw \/ userPlots.threw THEN Throw ELSE Ok(userPlots.v \o seedPlots.v)

\* line 243: the seed plots followed by the user plots
Merged(seedPlots, userPlots) ==
    IF seedPlots.threw \/ userPlots.threw THEN Throw ELSE Ok(seedPlots.v \o userPlots.v)

SpreadUserPlots(r) == IF r.threw THEN Throw ELSE Spread(r.v)

\* lines 242-247 of loadCommunityPlots, after the seed body was decoded: what
\* becomes of state, map and page; an error is caught and logged
Applied(st, r) == [state |-> st, map |-> r.map, page |-> r.page, ok |-> TRUE]

AppliedTo(st, m, pg) == Applied(st, applyFilters(st, m, pg))

Synced(st, m, pg, merged) ==
    IF merged.threw THEN [state |-> st, map |-> m, page |-> pg, ok |-> FALSE]
    ELSE AppliedTo([st EXCEPT !.allPlots = merged.v], m, pg)

Sync(st, m, pg, seedPlots, ls) ==
    Synced(st, m, pg, Merged(Spread(seedPlots), SpreadUserPlots(UserPlots(ls))))

\* lines 241-247: the same once response.json() has settled; a body that is
\* no JSON text raises a SyntaxError, caught like the others
Decoded(st, m, pg, seedPlots, ls) ==
    IF seedPlots.threw THEN [state |-> st, map |-> m, page |-> pg, ok |-> FALSE]
    ELSE Sync(st, m, pg, seedPlots.v, ls)

\* lines 147-150: a nested list of positions is flattened one level
NormalizedCoords(rawCoords) ==
    IF Len(rawCoords[2]) > 0 /\ IsArr(rawCoords[2][1]) THEN rawCoords[2][1] ELSE rawCoords

\* new Date().toISOString(): a text spelling the instant
toISOString(t) == "T+" \o ToString(t) \o "ms"

\* lines 153-165: the plot object built from the layer, the form and the sidebar
NewPlot(layer, form, pg, t) ==
    Obj(<< <<"id", Str("local-" \o ToString(t))>>,
           <<"ownerName", JSOr(Str(form.name), Str("Anonymous"))>>,
           <<"landType", JSOr(Str(form.landType), Str("Unspecified"))>>,
           <<"email", Str(form.email)>>,
           <<"phone", JSOr(Str(form.phone), Str("N/A"))>>,
           <<"type", Str("polygon")>>,
           <<"coordinates", NormalizedCoords(Get(layer, "latlngs"))>>,
           <<"area", JSOr(Str(pg.areaDisplay), Str("0"))>>,
           <<"hives", JSOr(Str(pg.hiveDisplay), Str("0"))>>,
           <<"timestamp", Str(toISOString(t))>>,
           <<"isUserCreated", Bool(TRUE)>> >>)

\* line 170 with unshift in the place of push
Unshifted(existingPlots, newPlot) ==
    IF existingPlots.threw \/ ~IsArr(existingPlots.v) THEN Throw
    ELSE Ok(Arr(<<newPlot>> \o existingPlots.v[2]))

\* line 170: existingPlots.push(newPlot); a value without push raises a TypeError
Pushed(existingPlots, newPlot) ==
    IF existingPlots.threw \/ ~IsArr(existingPlots.v) THEN Throw
    ELSE Ok(Arr(Append(existingPlots.v[2], newPlot)))

\* line 171: this.storage.save("user_plots", existingPlots)
Persisted(ls, existingPlots, full) ==
    IF existingPlots.threw THEN [threw |-> TRUE, ls |-> ls]
    ELSE save(ls, "user_plots", existingPlots.v, full)

\* lines 168-180: the try block of finalizeSave; the store it leaves, and
\* whether the catch ran
Persist(ls, newPlot, full) == Persisted(ls, Pushed(UserPlots(ls), newPlot), full)

SavedText == "Plot saved successfully!"

\* lines 183-200 of finalizeSave: the modal is hidden, the drawing removed and
\* the success reported (the reload of line 191 is started by the action)
AfterSave(m, pg) ==
    [map |-> clearDrawLayer(m),
     page |-> [pg EXCEPT !.saveModal = FALSE, !.feedback = SavedText]]

-----------------------------------------------------------------------------
(* The application controller: the page as a process                       *)

\* how many loadCommunityPlots calls may be in flight at once, and how many
\* plots user_plots may hold
MaxLoads == 2
MaxUserPlots == 2
Loads == 1..MaxLoads

\* the instants the clock can show when the controller reads it; the clock
\* never goes backwards
AppInstants == {0, 1}

LatLng(lat, lng) == Obj(<< <<"lat", lat>>, <<"lng", lng>> >>)

\* drawn shapes: getLatLngs() of a polygon or rectangle is a list of rings;
\* a geodesic area of 375 square metres gives 37 hives, one of 50 gives 5
Ring == Arr(<<LatLng(IntNum(51), Num(-1, 10)), LatLng(IntNum(51), Num(-1, 5))>>)
Layer(area) == Obj(<< <<"latlngs", Arr(<<Ring>>)>>, <<"area", IntNum(area)>> >>)
Layers == {Layer(375)}

\* seed plots as the generator writes them: numeric hives, a polygon with
\* coordinates or a marker with lat and lng; PlotC carries a text for hives
PlotA ==
    Obj(<< <<"id", IntNum(1)>>, <<"hives", IntNum(5)>>, <<"landType", Str("Orchard")>>,
           <<"type", Str("polygon")>>,
           <<"coordinates", Arr(<<Arr(<<IntNum(51), Num(-1, 10)>>),
                                  Arr(<<IntNum(51), Num(-1, 5)>>)>>)>> >>)
PlotB ==
    Obj(<< <<"id", IntNum(2)>>, <<"hives", IntNum(15)>>, <<"landType", Str("Orchard")>>,
           <<"lat", IntNum(51)>>, <<"lng", Num(-1, 10)>> >>)
PlotC ==
    Obj(<< <<"id", IntNum(3)>>, <<"hives", Str("abc")>>, <<"landType", Str("orchard")>>,
           <<"lat", IntNum(51)>>, <<"lng", Num(-1, 10)>> >>)

\* what the request for assets/data/landData.json can bring: a rejection or a
\* response, whose body is the seed list or no JSON text at all
SeedList == Arr(<<PlotA, PlotB, PlotC>>)
SeedResponses == {"reject", "response"}
SeedBodies == {Tokens(SeedList), Undecodable}

\* a plot saved by an earlier visit of the page
EarlierPlot ==
    NewPlot(Layer(50), [name |-> "", landType |-> "Orchard", email |-> "a@b.c", phone |-> ""],
            [areaDisplay |-> AreaText(50), hiveDisplay |-> HiveText(50)], -5)

\* what the store may hold when the page opens
InitialRoles == {Tokens(Str(ROLES.BEEKEEPER))}
InitialUserPlots == {Tokens(Arr(<<EarlierPlot>>))}
InitialStores ==
    { [k \in K |-> IF k = "userRole" THEN r ELSE u] :
        K \in {{}, {"userRole", "user_plots"}}, r \in InitialRoles, u \in InitialUserPlots }

\* what the save form and the filter controls can hold
Forms == { [name |-> "", landType |-> "", email |-> "a@b.c", phone |-> ""] }
FilterChoices == { <<"", "">>, <<"10", "">>, <<"0", "">>, <<"10", "Orchard">> }
RoleChoices == {ROLES.LANDOWNER, ROLES.BEEKEEPER, "admin"}

\* what the last step told the user with alert() and logged with
\* console.error(), "" when it did not
DrawFirstAlert == "Wait! You need to draw a shape on the map first."
SaveErrorAlert == "There was an error saving your plot. Local storage might be full."
NoLayerError == "Save triggered, but no layer found on the map."
SaveFailedError == "Failed to save plot to storage:"
SyncError == "Sync error:"
Event(alert, error) == [alert |-> alert, error |-> error]
NoEvent == Event("", "")

\* a loadCommunityPlots call waiting for the response; for the record, the
\* plot whose save started it, null for a call that updateUI started
Fetching(saved) == [pc |-> "fetching", saved |-> saved]

\* lines 174-179 without the return: the code after the catch runs as well
AbandonedWithoutReturn(m, pg, lds, ls) ==
    [map |-> clearDrawLayer(m),
     page |-> [pg EXCEPT !.saveModal = FALSE, !.feedback = "Plot saved successfully!"],
     loads |-> Append(lds, Fetching(Null)), ls |-> ls,
     event |-> Event(SaveErrorAlert, SaveFailedError)]

\* lines 174-179: the catch of finalizeSave logs the error, alerts and returns
Abandoned(m, pg, lds, ls) ==
    [map |-> m, page |-> pg, loads |-> lds, ls |-> ls,
     event |-> Event(SaveErrorAlert, SaveFailedError)]

\* the page once the map is initialised and before app.init runs
AppIdle ==
    /\ state = [role |-> Null, filters |-> [hiveCapacity |-> Null, landType |-> Null],
                allPlots |-> <<>>]
    /\ map = [drawnItems |-> <<>>, featureGroup |-> <<>>, drawControl |-> TRUE]
    /\ page = [started |-> FALSE, areaDisplay |-> NoPlotDrawn, hiveDisplay |-> "0 Hives",
               feedback |-> "", roleModal |-> FALSE, saveModal |-> FALSE]
    /\ loads = <<>>
    /\ lastEvent = NoEvent

\* a loadCommunityPlots call requests the seed list and waits (line 240)
HasFreeLoad(lds) == Len(lds) < MaxLoads
StartLoad(lds, saved) == Append(lds, Fetching(saved))

\* a call that returned leaves the calls in flight
Without(lds, l) == [i \in 1..(Len(lds) - 1) |-> IF i < l THEN lds[i] ELSE lds[i + 1]]

\* how many plots user_plots holds
CountOf(r) == IF ~r.threw /\ IsArr(r.v) THEN Len(r.v[2]) ELSE 0
StoredCount(ls) == CountOf(load(ls, "user_plots"))

\* nothing blocks the page: it is started and no modal is open
Interactive == page.started /\ ~page.roleModal /\ ~page.saveModal

\* setRole after the role was stored (lines 208-209): the role modal is
\* hidden and updateUI sets the draw control and starts a reload
UpdateUI(role) ==
    /\ map' = enableDraw(map, RoleDraws(role))
    /\ page' = [page EXCEPT !.started = TRUE, !.roleModal = FALSE]
    /\ loads' = StartLoad(loads, Null)

\* init(mapInstance): a valid stored role is restored without being saved
\* again; otherwise the role modal is shown
InitApp ==
    /\ ~page.started
    /\ LET savedRole == load(localStorage, "userRole") IN
       IF ~savedRole.threw /\ isValidRole(savedRole.v)
       THEN /\ state' = [state EXCEPT !.role = savedRole.v]
            /\ UpdateUI(savedRole.v[2])
            /\ lastEvent' = NoEvent
       ELSE /\ page' = [page EXCEPT !.started = TRUE, !.roleModal = ~savedRole.threw]
            /\ lastEvent' = NoEvent
            /\ UNCHANGED <<state, map, loads>>
    /\ UNCHANGED <<localStorage, now>>

\* setRole(role) from the role modal: an invalid role changes nothing; the
\* role is assigned before it is saved, and a failed save ends the handler
ChooseRole(role, full) ==
    /\ page.started /\ page.roleModal
    /\ HasFreeLoad(loads)
    /\ IF ~isValidRole(Str(role))
       THEN /\ ~full   \* nothing is written
            /\ lastEvent' = NoEvent
            /\ UNCHANGED <<state, map, page, loads, localStorage>>
       ELSE /\ state' = [state EXCEPT !.role = Str(role)]
            /\ localStorage' = save(localStorage, "userRole", Str(role), full).ls
            /\ IF full
               THEN /\ lastEvent' = NoEvent
                    /\ UNCHANGED <<map, page, loads>>
               ELSE /\ UpdateUI(role)
                    /\ lastEvent' = NoEvent
    /\ UNCHANGED now

\* the switch-role button: clearRole()
SwitchRole ==
    /\ Interactive
    /\ state' = [state EXCEPT !.role = Null]
    /\ localStorage' = remove(localStorage, "userRole")
    /\ page' = [page EXCEPT !.roleModal = TRUE]
    /\ lastEvent' = NoEvent
    /\ UNCHANGED <<map, loads, now>>

\* a shape is drawn with the draw control: the CREATED handler keeps it as the
\* only unsaved drawing and updateSidebarStats shows its area and hive count
Draw(layer) ==
    /\ Interactive /\ map.drawControl
    /\ map' = Created(map, layer)
    /\ page' = [page EXCEPT !.areaDisplay = AreaText(Get(layer, "area")[2]),
                            !.hiveDisplay = HiveText(Get(layer, "area")[2])]
    /\ lastEvent' = NoEvent
    /\ UNCHANGED <<state, loads, localStorage, now>>

\* the clear button (lines 99-102)
ClearDraw ==
    /\ Interactive /\ state.role = Str(ROLES.LANDOWNER)
    /\ map' = clearDrawLayer(map)
    /\ page' = [page EXCEPT !.feedback = "Map cleared."]
    /\ lastEvent' = NoEvent
    /\ UNCHANGED <<state, loads, localStorage, now>>

\* the save button: handleSavePlot() opens the save modal for a drawn shape
OpenSave ==
    /\ Interactive /\ state.role = Str(ROLES.LANDOWNER)
    /\ IF ~Truthy(getDrawnLayer(map)) \/ page.areaDisplay = NoPlotDrawn
       THEN /\ lastEvent' = Event(DrawFirstAlert, "")
            /\ UNCHANGED page
       ELSE /\ page' = [page EXCEPT !.saveModal = TRUE]
            /\ lastEvent' = NoEvent
    /\ UNCHANGED <<state, map, loads, localStorage, now>>

\* the save modal is dismissed without a submit
DismissSave ==
    /\ page.saveModal
    /\ page' = [page EXCEPT !.saveModal = FALSE]
    /\ lastEvent' = NoEvent
    /\ UNCHANGED <<state, map, loads, localStorage, now>>

\* the save form is submitted: finalizeSave(), Date.now() giving t
SubmitSave(form, full, t) ==
    /\ page.started /\ page.saveModal
    /\ HasFreeLoad(loads)
    /\ StoredCount(localStorage) < MaxUserPlots
    /\ t >= now
    /\ now' = t
    /\ IF ~Truthy(getDrawnLayer(map))
       THEN /\ lastEvent' = Event("", NoLayerError)
            /\ UNCHANGED <<map, page, loads, localStorage>>
       ELSE \E newPlot \in {NewPlot(getDrawnLayer(map), form, page, t)} :
            \E r \in {Persist(localStorage, newPlot, full)} :
            IF r.threw
            THEN \E a \in {Abandoned(map, page, loads, r.ls)} :
                 /\ map' = a.map
                 /\ page' = a.page
                 /\ loads' = a.loads
                 /\ localStorage' = a.ls
                 /\ lastEvent' = a.event
            ELSE /\ localStorage' = r.ls
                 /\ \E a \in {AfterSave(map, page)} : map' = a.map /\ page' = a.page
                 /\ loads' = StartLoad(loads, newPlot)
                 /\ lastEvent' = NoEvent
    /\ UNCHANGED state

\* the apply-filters button (lines 105-109): both controls are read, then applyFilters()
ApplyFilters(hiveCapacity, landType) ==
    /\ Interactive /\ state.role = Str(ROLES.BEEKEEPER)
    /\ state' = [state EXCEPT !.filters = [hiveCapacity |-> Str(hiveCapacity),
                                           landType |-> Str(landType)]]
    /\ \E r \in {applyFilters(state', map, page)} : map' = r.map /\ page' = r.page
    /\ lastEvent' = NoEvent
    /\ UNCHANGED <<loads, localStorage, now>>

\* line 240: the request for the seed list settles
LoadFetchSettles(l, response) ==
    /\ l <= Len(loads) /\ loads[l].pc = "fetching"
    /\ IF response = "reject"
       THEN /\ loads' = Without(loads, l)
            /\ lastEvent' = Event("", SyncError)
       ELSE /\ loads' = [loads EXCEPT ![l].pc = "decoding"]
            /\ lastEvent' = NoEvent
    /\ UNCHANGED <<state, map, page, localStorage, now>>

\* lines 241-247: response.json() reads and decodes the body, allPlots is
\* assigned and the map redrawn; an error is caught and leaves everything as
\* it was
LoadJsonSettles(l, body) ==
    /\ l <= Len(loads) /\ loads[l].pc = "decoding"
    /\ loads' = Without(loads, l)
    /\ \E r \in {Decoded(state, map, page, JSONparse(body), localStorage)} :
          /\ state' = r.state
          /\ map' = r.map
          /\ page' = r.page
          /\ lastEvent' = IF r.ok THEN NoEvent ELSE Event("", SyncError)
    /\ UNCHANGED <<localStorage, now>>

-----------------------------------------------------------------------------
(* The specifications                                                      *)

storageVars == <<lastOp, lastSaved>>
weatherVars == <<now, calls>>
forageVars == <<fiArg, fiResult, fiPrev>>
scoreVars == <<bsArgs, bsResult>>
appVars == <<state, map, page, loads, lastEvent>>

\* the weather service of a page: the cache key is absent or left by earlier pages
Init ==
    /\ \/ localStorage = [k \in {} |-> <<>>]
       \/ \E text \in InitialCaches : localStorage = [k \in {cacheKey} |-> text]
    /\ WeatherIdle
    /\ StorageIdle
    /\ ForageIdle
    /\ ScoreIdle
    /\ AppIdle

Next ==
    \/ \E c \in Calls, p \in Coordinates, full \in BOOLEAN :
          StartCall(c, p[1], p[2], full) /\ UNCHANGED <<storageVars, forageVars, scoreVars, appVars>>
    \/ \E c \in Calls, o \in FetchOutcomes :
          WeatherFetchSettles(c, o) /\ UNCHANGED <<storageVars, forageVars, scoreVars, appVars>>
    \/ \E c \in Calls, text \in WeatherTexts :
          WeatherJsonSettles(c, text) /\ UNCHANGED <<storageVars, forageVars, scoreVars, appVars>>
    \/ \E c \in Calls, o \in FetchOutcomes, full \in BOOLEAN :
          PollenFetchSettles(c, o, full) /\ UNCHANGED <<storageVars, forageVars, scoreVars, appVars>>
    \/ \E c \in Calls, text \in PollenTexts, full \in BOOLEAN :
          PollenJsonSettles(c, text, full) /\ UNCHANGED <<storageVars, forageVars, scoreVars, appVars>>
    \/ \E t \in Instants :
          Tick(t) /\ UNCHANGED <<storageVars, forageVars, scoreVars, appVars>>

Spec == Init /\ [][Next]_vars

\* the key-value store on its own: any key may hold a text left by other code
InitStorage ==
    /\ \E K \in SUBSET StoreKeys : localStorage \in [K -> ForeignTexts]
    /\ StorageIdle
    /\ WeatherIdle
    /\ ForageIdle
    /\ ScoreIdle
    /\ AppIdle

NextStorage ==
    \/ \E k \in StoreKeys, v \in JsonValues \cup OtherValues, full \in BOOLEAN :
          Save(k, v, full) /\ UNCHANGED <<weatherVars, forageVars, scoreVars, appVars>>
    \/ \E k \in StoreKeys :
          Load(k) /\ UNCHANGED <<weatherVars, forageVars, scoreVars, appVars>>
    \/ \E k \in StoreKeys :
          Remove(k) /\ UNCHANGED <<weatherVars, forageVars, scoreVars, appVars>>

SpecStorage == InitStorage /\ [][NextStorage]_vars

\* calculateForageIndex on any assignment of base averages
InitForage ==
    /\ fiArg \in [SpeciesSet -> BaseLevels]
    /\ fiResult = Undef
    /\ fiPrev = NoPrev
    /\ localStorage = [k \in {} |-> <<>>]
    /\ StorageIdle
    /\ WeatherIdle
    /\ ScoreIdle
    /\ AppIdle

NextForage ==
    \/ EvalForage /\ UNCHANGED <<localStorage, storageVars, weatherVars, scoreVars, appVars>>
    \/ \E s \in SpeciesSet, v \in Levels :
          RaiseOne(s, v) /\ UNCHANGED <<localStorage, storageVars, weatherVars, scoreVars, appVars>>

SpecForage == InitForage /\ [][NextForage]_vars

\* calculateBeeScore on arguments around every threshold
InitScore ==
    /\ bsArgs \in [temp : Temperatures, humidity : Humidities, rainfall : Rainfalls,
                   windSpeed : WindSpeeds, forageIndex : ForageIndexes]
    /\ bsResult = Undef
    /\ localStorage = [k \in {} |-> <<>>]
    /\ StorageIdle
    /\ WeatherIdle
    /\ ForageIdle
    /\ AppIdle

NextScore == EvalScore /\ UNCHANGED <<localStorage, storageVars, weatherVars, forageVars, appVars>>

SpecScore == InitScore /\ [][NextScore]_vars

\* the page of the application: what the store holds when it opens, then
\* app.init and the user's actions, the seed requests settling in any order
InitApplication ==
    /\ \E ls \in InitialStores : localStorage = ls
    /\ AppIdle
    /\ StorageIdle
    /\ WeatherIdle
    /\ ForageIdle
    /\ ScoreIdle

NextApplication ==
    \/ InitApp /\ UNCHANGED <<storageVars, calls, forageVars, scoreVars>>
    \/ \E role \in RoleChoices, full \in BOOLEAN :
          ChooseRole(role, full) /\ UNCHANGED <<storageVars, calls, forageVars, scoreVars>>
    \/ SwitchRole /\ UNCHANGED <<storageVars, calls, forageVars, scoreVars>>
    \/ \E layer \in Layers :
          Draw(layer) /\ UNCHANGED <<storageVars, calls, forageVars, scoreVars>>
    \/ ClearDraw /\ UNCHANGED <<storageVars, calls, forageVars, scoreVars>>
    \/ OpenSave /\ UNCHANGED <<storageVars, calls, forageVars, scoreVars>>
    \/ DismissSave /\ UNCHANGED <<storageVars, calls, forageVars, scoreVars>>
    \/ \E form \in Forms, full \in BOOLEAN, t \in AppInstants :
          SubmitSave(form, full, t) /\ UNCHANGED <<storageVars, calls, forageVars, scoreVars>>
    \/ \E f \in FilterChoices :
          ApplyFilters(f[1], f[2]) /\ UNCHANGED <<storageVars, calls, forageVars, scoreVars>>
    \/ \E l \in Loads, response \in SeedResponses :
          LoadFetchSettles(l, response) /\ UNCHANGED <<storageVars, calls, forageVars, scoreVars>>
    \/ \E l \in Loads, body \in SeedBodies :
          LoadJsonSettles(l, body) /\ UNCHANGED <<storageVars, calls, forageVars, scoreVars>>

SpecApplication == InitApplication /\ [][NextApplication]_vars

-----------------------------------------------------------------------------
(* Properties of calculateForageIndex (SpecForage)                         *)

\* C5: calculateForageIndex is monotonically non-decreasing in each species'
\* average: raising the average of one species, the others fixed (also from 0
\* to a positive average), never lowers the index.
C5_ForageIndexMonotone ==
    fiPrev.species # "" => ~JSLt(fiResult, fiPrev.result)

NoneContributes == \A s \in SpeciesSet : fiArg[s] = Absent \/ fiArg[s] = IntNum(0)

\* C6: for non-negative averages of any subset of the six species the index
\* is a number within 0..100, and it is the baseline 50 when no species has a
\* positive average (all zero, or no species at all).
C6_ForageIndexRange ==
    fiResult # Undef =>
        /\ IsNum(fiResult)
        /\ ~JSLt(fiResult, IntNum(0))
        /\ ~JSGt(fiResult, IntNum(100))
        /\ NoneContributes => fiResult = IntNum(50)

\* all six species present: five at 5000 and one raised to 9000 contribute 100
\* each, (50 + 600) / 7 rounds to 93
C6_Witness ==
    /\ fiResult = IntNum(93)
    /\ fiPrev.species = "olive"
    /\ \A s \in SpeciesSet : fiArg[s] = IF s = "olive" THEN IntNum(9000) ELSE IntNum(5000)

-----------------------------------------------------------------------------
(* Properties of calculateBeeScore (SpecScore)                             *)

\* the formula as stated: penalties off 100, then nine tenths of the sum plus
\* one tenth of the forage index, clamped to 0..100; x is the number n/d
StatedBeeScore(a) ==
    LET below(x, k) == x[2] < k * x[3]
        above(x, k) == x[2] > k * x[3]
        t == a.temp
        h == a.humidity
        w == a.windSpeed
        r == a.rainfall
        f == IF a.forageIndex = Undef THEN IntNum(50) ELSE a.forageIndex
        tp == CASE below(t, 10) \/ above(t, 30) -> 25
                [] ~(below(t, 10) \/ above(t, 30)) /\ (below(t, 15) \/ above(t, 25)) -> 15
                [] ~(below(t, 15) \/ above(t, 25)) /\ (below(t, 18) \/ above(t, 23)) -> 5
                [] OTHER -> 0
        hp == CASE below(h, 30) \/ above(h, 80) -> 15
                [] ~(below(h, 30) \/ above(h, 80)) /\ (below(h, 40) \/ above(h, 75)) -> 5
                [] OTHER -> 0
        wp == CASE above(w, 40) -> 20
                [] ~above(w, 40) /\ above(w, 30) -> 10
                [] ~above(w, 30) /\ above(w, 20) -> 5
                [] OTHER -> 0
        rp == IF below(r, 300) \/ above(r, 2000) THEN 10 ELSE 0
        sum == 100 - tp - hp - wp - rp
        tenths == Num(9 * sum * f[3] + f[2], 10 * f[3])
    IN IF tenths[2] < 0 THEN IntNum(0)
       ELSE IF tenths[2] > 100 * tenths[3] THEN IntNum(100)
       ELSE tenths

IdealArgs(a) ==
    /\ a.temp = IntNum(20)
    /\ a.humidity = IntNum(60)
    /\ a.rainfall = IntNum(800)
    /\ a.windSpeed = IntNum(10)
    /\ a.forageIndex \in {Undef, IntNum(50)}

\* C7: calculateBeeScore equals the stated formula on every input, its result
\* lies within 0..100, and calculateBeeScore(20, 60, 800, 10) with forage
\* index 50 is 95.
C7_BeeScoreFormula ==
    bsResult # Undef =>
        /\ bsResult = StatedBeeScore(bsArgs)
        /\ ~JSLt(bsResult, IntNum(0))
        /\ ~JSGt(bsResult, IntNum(100))
        /\ IdealArgs(bsArgs) => bsResult = IntNum(95)

C7_Witness ==
    /\ IdealArgs(bsArgs)
    /\ bsArgs.forageIndex = IntNum(50)
    /\ bsResult = IntNum(95)

-----------------------------------------------------------------------------
(* Properties of StorageManager (SpecStorage)                              *)

\* C8: a load of a key returns, without an error, a value equal to the
\* JSON-serializable value the last save of that key wrote (falsy values
\* included), when no save or remove of the key came in between; the last
\* save is the one that counts.
C8_SaveLoadRoundTrip ==
    (/\ lastOp.op = "load"
     /\ lastSaved[lastOp.key][1] = "saved"
     /\ IsJsonValue(lastSaved[lastOp.key][2]))
    => /\ ~lastOp.threw
       /\ lastOp.result = lastSaved[lastOp.key][2]

\* the falsy value 0, saved over an earlier value, is loaded back
C8_Witness ==
    /\ lastOp.op = "load"
    /\ lastSaved[lastOp.key] = Saved(IntNum(0), TRUE)
    /\ lastOp.result = IntNum(0)

\* C9: load of a key that holds no value returns null (a key never saved, or
\* removed after saves); remove raises no error, also for an absent key,
\* leaves the key absent and every other key as it was.
C9_AbsentKeyLoadsNull ==
    [][/\ (lastOp'.op = "load" /\ lastOp'.key \notin DOMAIN localStorage)
          => (~lastOp'.threw /\ lastOp'.result = Null)
       /\ lastOp'.op = "remove"
          => /\ ~lastOp'.threw
             /\ lastOp'.key \notin DOMAIN localStorage'
             /\ \A k \in StoreKeys \ {lastOp'.key} :
                   /\ k \in DOMAIN localStorage <=> k \in DOMAIN localStorage'
                   /\ k \in DOMAIN localStorage => localStorage'[k] = localStorage[k]
      ]_vars

\* a key saved and then removed loads null while the other key keeps its value
C9_Witness ==
    /\ lastOp.op = "load"
    /\ lastSaved[lastOp.key] = Removed
    /\ lastOp.result = Null
    /\ \E k \in StoreKeys \ {lastOp.key} : lastSaved[k][1] = "saved" /\ k \in DOMAIN localStorage

\* C10: load of a key whose stored text is not parseable as JSON returns null
\* and surfaces no error.
C10_UnparseableLoadsNull ==
    (/\ lastOp.op = "load"
     /\ lastOp.key \in DOMAIN localStorage
     /\ JSONparse(localStorage[lastOp.key]).threw)
    => (~lastOp.threw /\ lastOp.result = Null)

-----------------------------------------------------------------------------
(* Properties of getWeatherForPlot (Spec)                                  *)

SameCoordinate(a, b) == calls[a].lat = calls[b].lat /\ calls[a].lng = calls[b].lng
Within24h(a, b) == calls[b].startedAt - calls[a].startedAt < cacheDuration
BothDone(a, b) == a < b /\ calls[a].pc = "done" /\ calls[b].pc = "done"

\* C1 as stated: of two calls for one coordinate made less than 24 hours
\* apart, only the first performs network requests; the second issues none and
\* returns a snapshot identical to the one the first returned.
C1_SecondCallFromCache ==
    \A a, b \in Calls :
        (BothDone(a, b) /\ SameCoordinate(a, b) /\ Within24h(a, b))
        => (calls[b].requests = <<>> /\ calls[b].result = calls[a].result)

\* C1 as amended: when the first call fetched the forecast and stored its
\* snapshot, the snapshot holding nothing JSON cannot carry, and no later call
\* stored a newer one for the coordinate in between, a second call for the
\* coordinate that starts after the first has returned and less than 24 hours
\* after it issues no request and returns the snapshot the first returned.
C1_StoredSnapshotServed ==
    \A a, b \in Calls :
        (/\ BothDone(a, b) /\ SameCoordinate(a, b) /\ Within24h(a, b)
         /\ calls[a].outcome = "fetched" /\ calls[a].wrote
         /\ IsJsonValue(calls[a].result)
         /\ \A c \in Calls : (a < c /\ c < b /\ SameCoordinate(a, c)) => ~calls[c].wrote)
        => (calls[b].requests = <<>> /\ calls[b].result = calls[a].result)

\* the first call fetched weather and pollen at the first instant, the second
\* is served its snapshot one millisecond short of 24 hours later
C1_Witness ==
    /\ BothDone(1, 2) /\ SameCoordinate(1, 2)
    /\ calls[1].outcome = "fetched" /\ calls[1].wrote
    /\ calls[1].requests = <<"weather", "pollen">>
    /\ HasKey(calls[1].result, "pollen")
    /\ calls[1].startedAt = 0
    /\ calls[2].startedAt = cacheDuration - 1
    /\ calls[2].outcome = "hit"
    /\ calls[2].requests = <<>>
    /\ calls[2].result = calls[1].result

\* a step in which call c returns
Returns(c) == calls[c].pc # "done" /\ calls'[c].pc = "done"

\* a forecast body with the daily object and its five series, none empty
CompleteForecast(data) ==
    LET daily == Get(data, "daily")
        full(name) == IsArr(Get(daily, name)) /\ Len(Get(daily, name)[2]) > 0
    IN /\ IsObj(daily)
       /\ full("temperature_2m_max") /\ full("temperature_2m_min")
       /\ full("precipitation_sum") /\ full("windspeed_10m_max")
       /\ full("relative_humidity_2m_max")

SnapshotFields ==
    {"temperature", "minTemp", "maxTemp", "humidity", "rainfall", "windSpeed",
     "condition", "beeScore"}

\* C2: getWeatherForPlot never fails: whatever the cache holds and however
\* the two requests settle, the call returns a snapshot, and when an error
\* occurred (the catch ran, or the forecast body was structurally incomplete)
\* the snapshot is exactly the default one.
C2_ErrorsGiveDefault ==
    [][\A c \in Calls : Returns(c) =>
          /\ \A f \in SnapshotFields : HasKey(calls'[c].result, f)
          /\ (\/ calls'[c].outcome = "caught"
              \/ calls[c].weatherData # Undef /\ ~CompleteForecast(calls[c].weatherData))
             => calls'[c].result = getDefaultWeather
      ]_vars

\* C3: however the pollen request ends (rejected, not ok, a body without a
\* usable hourly object, or success), the weather fields of the result are
\* those of the forecast that was received; a pollen failure only leaves the
\* pollen block out.
C3_PollenLeavesWeatherAlone ==
    [][\A c \in Calls :
          (/\ Returns(c)
           /\ calls[c].pc \in {"awaitPollen", "awaitPollenJson"}
           /\ ~processWeatherData(calls[c].weatherData).threw)
          => DelProp(calls'[c].result, "pollen") = processWeatherData(calls[c].weatherData).v
      ]_vars

\* C4: the bee score of a returned snapshot is computed from the forecast
\* averages with the snapshot's own forage index as the 10% term when it has
\* a pollen block, and with the neutral 50 only when it has none.
C4_ScoreUsesForageIndex ==
    [][\A c \in Calls :
          (/\ Returns(c)
           /\ calls'[c].outcome = "fetched"
           /\ HasForecast(calls[c].weatherData))
          => LET a == Averages(Get(calls[c].weatherData, "daily")).v
                 pollen == Get(calls'[c].result, "pollen")
             IN Get(calls'[c].result, "beeScore") =
                  calculateBeeScore(a.avgTemp, a.avgHumidity, a.totalRainfall, a.avgWindSpeed,
                                    IF Truthy(pollen) THEN Get(pollen, "forageIndex")
                                    ELSE IntNum(50))
      ]_vars

-----------------------------------------------------------------------------
(* Properties of the application controller (SpecApplication)              *)

\* the plots on the feature layer, in the order they were added
PlotsShown(m) == [i \in 1..Len(m.featureGroup) |-> m.featureGroup[i][2]]

\* the hive count the filter is stated on: a number counts as it is, a text
\* that begins with a number counts as that number, any other value as 0
HiveCounts == 0..40
Counted(numbers) == IF numbers = {} THEN 0 ELSE CHOOSE n \in numbers : TRUE
HiveCountOf(v) ==
    IF IsNum(v) THEN v[2] \div v[3]
    ELSE IF IsStr(v)
    THEN Counted({n \in HiveCounts : v[2] \in {ToString(n), ToString(n) \o " Hives"}})
    ELSE 0
HiveCount(p) == HiveCountOf(Get(p, "hives"))

\* the filter holds the text of an integer ceiling
IsCeiling(v) == IsStr(v) /\ \E n \in HiveCounts : v[2] = ToString(n)
Ceiling(v) == CHOOSE n \in HiveCounts : v[2] = ToString(n)

HivesOf(plots) == [i \in 1..Len(plots) |-> Get(plots[i], "hives")]

\* C11: whenever an integer hive-capacity ceiling is set (0 included) and no
\* land type, the plots the filter pass has retained and rendered are exactly
\* the plots of allPlots whose hive value, parsed leniently with a
\* non-numeric value counted as 0, is at most the ceiling; a ceiling of 10 on
\* hives 5, 15 and "abc" keeps the plots with 5 and "abc".
C11_HiveCeilingKeepsExactly ==
    (IsCeiling(state.filters.hiveCapacity) /\ ~Truthy(state.filters.landType))
    => /\ PlotsShown(map) =
            SelectSeq(state.allPlots,
                      LAMBDA p : HiveCount(p) <= Ceiling(state.filters.hiveCapacity))
       /\ (/\ Ceiling(state.filters.hiveCapacity) = 10
           /\ HivesOf(state.allPlots) = <<IntNum(5), IntNum(15), Str("abc")>>)
          => HivesOf(PlotsShown(map)) = <<IntNum(5), Str("abc")>>

\* the ceiling 0 is applied to the three seed plots and a saved plot of 37
\* hives: only the plot with the hives "abc" is kept, and the count reported
C11_Witness ==
    /\ state.filters = [hiveCapacity |-> Str("0"), landType |-> Str("")]
    /\ HivesOf(state.allPlots) = <<IntNum(5), IntNum(15), Str("abc"), Str("37 Hives")>>
    /\ PlotsShown(map) = <<PlotC>>
    /\ page.feedback = FoundText(1)

\* a plot satisfies the hive ceiling when none is set or its hive count is
\* at most the ceiling, and the land type when none is set or its landType is
\* the very same text
NotSet(v) == v \in {Null, Str("")}
SatisfiesCeiling(p, hiveCapacity) ==
    NotSet(hiveCapacity) \/ (IsCeiling(hiveCapacity) /\ HiveCount(p) <= Ceiling(hiveCapacity))
SatisfiesLandType(p, landType) == NotSet(landType) \/ Get(p, "landType") = landType

RenderedIsFilteredSubsequence(st, m) ==
    PlotsShown(m) =
        SelectSeq(st.allPlots,
                  LAMBDA p : /\ SatisfiesCeiling(p, st.filters.hiveCapacity)
                             /\ SatisfiesLandType(p, st.filters.landType))

\* C12: the filters compose by AND and keep the order: at all times the
\* rendered plots are exactly the subsequence of allPlots, in the same
\* relative order, of the plots that satisfy the hive ceiling (if set) and
\* whose landType equals the land-type constraint exactly and case-sensitively
\* (if set), so all of allPlots when neither is set; and a filter pass from
\* the filter controls leaves allPlots as it was.
C12_FiltersComposeInOrder ==
    /\ []RenderedIsFilteredSubsequence(state, map)
    /\ [][state'.filters # state.filters => state'.allPlots = state.allPlots]_vars

\* ceiling 10 and land type "Orchard" on the three seed plots and an earlier
\* saved plot: the 15 hives and the land type "orchard" are filtered out
C12_Witness ==
    /\ state.filters = [hiveCapacity |-> Str("10"), landType |-> Str("Orchard")]
    /\ state.allPlots = <<PlotA, PlotB, PlotC, EarlierPlot>>
    /\ PlotsShown(map) = <<PlotA, EarlierPlot>>

\* the list user_plots holds in the store, empty when the key is absent
StoredUserPlots(ls) ==
    IF "user_plots" \in DOMAIN ls THEN JSONparse(ls["user_plots"]).v[2] ELSE <<>>

\* a step in which a loadCommunityPlots call decodes the seed list and
\* returns without an error
LoadCompletes ==
    /\ \E l \in 1..Len(loads) : loads[l].pc = "decoding" /\ loads' = Without(loads, l)
    /\ lastEvent'.error = ""

\* C13: a loadCommunityPlots call that completes sets allPlots to the seed
\* list in its stored order followed by the stored user_plots list in its
\* appended order (the seed list alone when user_plots is absent), nothing
\* reordered and nothing deduplicated; with no filter set it renders every
\* plot of both sources exactly once.
C13_SeedThenUserPlots ==
    [][LoadCompletes =>
          /\ state'.allPlots = <<PlotA, PlotB, PlotC>> \o StoredUserPlots(localStorage)
          /\ (NotSet(state.filters.hiveCapacity) /\ NotSet(state.filters.landType))
             => PlotsShown(map') = state'.allPlots
      ]_vars

\* two plots saved at the same instant from the same drawing are the same in
\* every field: both follow the three seed plots and both are rendered
C13_Witness ==
    /\ Len(state.allPlots) = 5
    /\ SubSeq(state.allPlots, 1, 3) = <<PlotA, PlotB, PlotC>>
    /\ state.allPlots[4] = state.allPlots[5]
    /\ SubSeq(state.allPlots, 4, 5) = StoredUserPlots(localStorage)
    /\ PlotsShown(map) = state.allPlots
    /\ loads = <<>>

\* the milliseconds an id of the form local-<milliseconds> was made from
IdInstants == AppInstants \cup {-5}
HasLocalId(p) == \E t \in IdInstants : Get(p, "id") = Str("local-" \o ToString(t))
IdInstant(p) == CHOOSE t \in IdInstants : Get(p, "id") = Str("local-" \o ToString(t))

\* C14: the ids of the user-created plots never collide: under a clock that
\* never goes backwards all plots of user_plots have pairwise distinct ids of
\* the form local-<milliseconds>, and a plot saved later has a strictly
\* greater milliseconds part than one saved earlier.
C14_IdsNeverCollide ==
    \A i, j \in 1..Len(StoredUserPlots(localStorage)) :
        LET p == StoredUserPlots(localStorage)[i]
            q == StoredUserPlots(localStorage)[j]
        IN /\ HasLocalId(p)
           /\ i < j => (Get(p, "id") # Get(q, "id") /\ IdInstant(p) < IdInstant(q))

\* a step in which finalizeSave runs to its end: the save modal is hidden
\* and a reload of the plots is started
SaveSucceeds ==
    page.saveModal /\ ~page'.saveModal /\ Len(loads') = Len(loads) + 1

SameUserPlotsText(ls, after) ==
    /\ "user_plots" \in DOMAIN ls <=> "user_plots" \in DOMAIN after
    /\ "user_plots" \in DOMAIN ls => after["user_plots"] = ls["user_plots"]

OneMoreUserPlot(before, after) ==
    /\ Len(after) = Len(before) + 1
    /\ SubSeq(after, 1, Len(before)) = before
    /\ Get(after[Len(after)], "type") = Str("polygon")
    /\ Get(after[Len(after)], "isUserCreated") = Bool(TRUE)

\* C15: the stored user_plots is append-only: a finalizeSave that succeeds
\* leaves the previous list followed by exactly one new plot, of type
\* "polygon" and with isUserCreated true, and every other step of the
\* application (role changes, filtering, loading, failed or refused saves)
\* leaves the stored text as it was.
C15_UserPlotsAppendOnly ==
    [][IF SaveSucceeds
       THEN OneMoreUserPlot(StoredUserPlots(localStorage), StoredUserPlots(localStorage'))
       ELSE SameUserPlotsText(localStorage, localStorage')
      ]_vars

\* a plot is saved after the one an earlier visit left: the stored list is
\* the earlier plot followed by the new one
C15_Witness ==
    /\ Len(StoredUserPlots(localStorage)) = 2
    /\ StoredUserPlots(localStorage)[1] = EarlierPlot
    /\ Get(StoredUserPlots(localStorage)[2], "id") = Str("local-1")
    /\ Get(StoredUserPlots(localStorage)[2], "hives") = Str("37 Hives")
    /\ page.feedback = SavedText
    /\ map.drawnItems = <<>>

\* a step in which the catch of finalizeSave runs
SaveFails == lastEvent'.error = SaveFailedError

\* C16: when the storage write of finalizeSave fails, the user is shown the
\* blocking notice and the save is abandoned: the stored user_plots is
\* unchanged, the drawn layer is not cleared, no reload is started and no
\* success feedback is shown; the save form stays open over the drawing, and
\* the same submit succeeds once the store accepts the write.
C16_FailedWriteAbandonsSave ==
    [][SaveFails =>
          /\ lastEvent'.alert = SaveErrorAlert
          /\ SameUserPlotsText(localStorage, localStorage')
          /\ map'.drawnItems = map.drawnItems /\ Truthy(getDrawnLayer(map'))
          /\ loads' = loads
          /\ page' = page /\ page'.saveModal
          /\ state' = state
          /\ \A form \in Forms :
                ~Persist(localStorage', NewPlot(getDrawnLayer(map'), form, page', now'), FALSE).threw
      ]_vars

\* the store refused the write of a plot drawn after an earlier save: the
\* alert was shown, the form is open over the drawing and the store holds
\* the earlier save alone
C16_Witness ==
    /\ lastEvent = Event(SaveErrorAlert, SaveFailedError)
    /\ page.saveModal
    /\ Truthy(getDrawnLayer(map))
    /\ page.feedback = SavedText
    /\ Len(StoredUserPlots(localStorage)) = 1
    /\ Get(StoredUserPlots(localStorage)[1], "id") = Str("local-0")

\* a step in which the switch-role button is clicked: the role modal opens
\* on a started page
SwitchClicked == page.started /\ ~page.roleModal /\ page'.roleModal

\* C17: clicking the switch-role button clears the role and cleans the map
\* up: after the click state.role is null, the persisted userRole is removed,
\* and the map is as clearAll() and enableDraw(false) leave it.
C17_SwitchRoleCleansMap ==
    [][SwitchClicked =>
          /\ state'.role = Null
          /\ "userRole" \notin DOMAIN localStorage'
          /\ map' = enableDraw(clearAll(map), FALSE)
      ]_vars

-----------------------------------------------------------------------------
(* Properties of the weather cache (Spec)                                  *)

\* the cache object the store holds, empty when the text cannot be read
CacheOf(ls) == IF ReadCache(ls).threw THEN Obj(<<>>) ELSE ReadCache(ls).v

\* the entry the store holds for the coordinate of a call
EntryFor(ls, call) == Get(CacheOf(ls), EntryKey(call.lat, call.lng))

HasTimestamp(entry) == IsObj(entry) /\ IsNum(Get(entry, "timestamp"))
AgeAt(entry, t) == t - (Get(entry, "timestamp")[2] \div Get(entry, "timestamp")[3])

\* steps of a call: it is served from the cache, it misses, it returns what
\* it fetched
Served(c) == calls[c].pc = "idle" /\ calls'[c].outcome = "hit"
Missed(c) == calls[c].pc = "idle" /\ calls'[c].pc = "awaitWeather"
Fetched(c) == Returns(c) /\ calls'[c].outcome = "fetched"

\* what JSON keeps of the entry saveToCache builds
WrittenEntry(data, t) ==
    JSONparse(Tokens(Obj(<< <<"data", data>>, <<"timestamp", IntNum(t)>> >>))).v

NeverServedExpired(c) ==
    Served(c) =>
        /\ HasTimestamp(EntryFor(localStorage, calls'[c]))
        /\ AgeAt(EntryFor(localStorage, calls'[c]), now) < cacheDuration
        /\ calls'[c].result = Get(EntryFor(localStorage, calls'[c]), "data")

FoundExpired(c) ==
    /\ Missed(c)
    /\ HasTimestamp(EntryFor(localStorage, calls'[c]))
    /\ AgeAt(EntryFor(localStorage, calls'[c]), now) >= cacheDuration

ExpiredEntryGone(c) == EntryFor(localStorage', calls'[c]) = Undef

Replaced(c) == EntryFor(localStorage', calls'[c]) = WrittenEntry(calls'[c].result, now)

\* C18 as stated: an entry is never served once it is 24 hours old or older;
\* an expired entry is removed on read, and a successful fetch for the key
\* replaces the entry wholesale, with the new data and the new timestamp.
C18_ExpiredRemovedAndReplaced ==
    [][\A c \in Calls :
          /\ NeverServedExpired(c)
          /\ FoundExpired(c) => ExpiredEntryGone(c)
          /\ Fetched(c) => Replaced(c)
      ]_vars

\* C18 as amended: an entry is never served once it is 24 hours old or
\* older; an expired entry is removed on read when the store accepts the
\* write and is otherwise left as it was, and a fetch whose result is written
\* to the cache replaces the entry wholesale, with the new data and the new
\* timestamp.
C18_ExpiredNeverServed ==
    [][\A c \in Calls :
          /\ NeverServedExpired(c)
          /\ FoundExpired(c) => (ExpiredEntryGone(c) \/ localStorage' = localStorage)
          /\ (Fetched(c) /\ calls'[c].wrote) => Replaced(c)
      ]_vars

\* the entry an earlier page left is exactly 24 hours old when the call
\* starts: it is not served, and the fetch writes the new snapshot with the
\* new timestamp in its place
C18_Witness ==
    /\ calls[1].pc = "done" /\ calls[1].outcome = "fetched" /\ calls[1].wrote
    /\ calls[1].startedAt = cacheDuration - 1
    /\ calls[1].requests = <<"weather", "pollen">>
    /\ calls[1].result # SnapshotOf(HotWeather)
    /\ EntryFor(localStorage, calls[1]) = WrittenEntry(calls[1].result, cacheDuration - 1)
    /\ calls[2].pc = "idle"

\* the stored cache is malformed for a call: the whole text cannot be read,
\* or the entry for the coordinate of the call lacks its timestamp
MalformedFor(ls, call) ==
    /\ cacheKey \in DOMAIN ls
    /\ \/ ReadCache(ls).threw
       \/ EntryFor(ls, call) # Undef /\ ~HasTimestamp(EntryFor(ls, call))

\* C19: malformed cached data is treated as a cache miss and dropped: a call
\* that reads a malformed cache (the whole stored text, or the entry for its
\* key lacking a timestamp) proceeds to a fresh fetch, the malformed data is
\* removed from storage by the read, and the snapshot the call fetches is
\* cached again.
C19_MalformedCacheDropped ==
    [][\A c \in Calls :
          /\ (calls[c].pc = "idle" /\ calls'[c].pc # "idle"
               /\ MalformedFor(localStorage, calls'[c]))
             => (Missed(c) /\ ~MalformedFor(localStorage', calls'[c]))
          /\ Fetched(c) => (~ReadCache(localStorage').threw /\ Replaced(c))
      ]_vars

\* an unreadable cache text is never dropped, whatever the store accepts: the
\* read and the write both leave it as it is
UnreadableCacheStays ==
    [][\A c \in Calls :
          ReadCache(localStorage).threw =>
              /\ localStorage' = localStorage
              /\ Fetched(c) => ~calls'[c].wrote
      ]_vars

-----------------------------------------------------------------------------
(* Properties of the requests of getWeatherForPlot (Spec)                  *)

Requested(call, what) == \E i \in 1..Len(call.requests) : call.requests[i] = what

\* C20: when the forecast request fails (the fetch is rejected, the response
\* is not ok, or its body cannot be decoded) the call returns the default
\* snapshot without ever having issued a pollen request; a pollen request is
\* issued only when the forecast response has been received and decoded, and
\* a call that has returned issues nothing more.
C20_NoPollenAfterWeatherFailure ==
    [][\A c \in Calls :
          /\ (Returns(c) /\ calls[c].pc \in {"awaitWeather", "awaitWeatherJson"})
             => /\ calls'[c].result = getDefaultWeather
                /\ calls'[c].requests = <<"weather">>
          /\ (Requested(calls'[c], "pollen") /\ ~Requested(calls[c], "pollen"))
             => /\ calls[c].pc = "awaitWeatherJson"
                /\ calls[c].requests = <<"weather">>
                /\ calls'[c].weatherData # Undef
          /\ calls[c].pc = "done" => calls'[c] = calls[c]
      ]_vars

\* the forecast request of the first call failed: it returned the default
\* snapshot having requested the forecast alone, while the second call, whose
\* forecast was decoded, went on to request the pollen
C20_Witness ==
    /\ calls[1].pc = "done" /\ calls[1].outcome = "caught"
    /\ calls[1].requests = <<"weather">>
    /\ calls[1].result = getDefaultWeather
    /\ calls[2].pc = "awaitPollen"
    /\ calls[2].requests = <<"weather", "pollen">>
    /\ calls[2].weatherData # Undef

-----------------------------------------------------------------------------
(* Properties of the rendering pass (SpecApplication)                      *)

\* the method a plot is drawn with
DrawnWith(p) == IF Get(p, "type") = Str("polygon") THEN "polygon" ELSE "marker"

\* C21: the features on the map are at all times exactly the plots the last
\* filter pass retained, each once and in their order, with nothing left of
\* an earlier pass; a plot of type "polygon" was drawn by displayPolygon and
\* every other plot by displayMarker.
C21_ShownIsExactlyFiltered ==
    /\ Len(map.featureGroup) = Len(Filtered(state))
    /\ \A i \in 1..Len(map.featureGroup) :
          map.featureGroup[i] = <<DrawnWith(Filtered(state)[i]), Filtered(state)[i]>>

\* a load drew the three seed plots, then a ceiling of 10 was applied: the
\* marker of the 15 hives is gone, the polygon and the other marker are drawn
\* once each
C21_Witness ==
    /\ state.allPlots = <<PlotA, PlotB, PlotC>>
    /\ state.filters.hiveCapacity = Str("10")
    /\ map.featureGroup = << <<"polygon", PlotA>>, <<"marker", PlotC>> >>

-----------------------------------------------------------------------------
(* Properties of the draw layer (SpecApplication)                          *)

\* the steps that may take the unsaved shape away: another shape is drawn in
\* its place, the clear button is pressed, or the shape is saved
DrawnAgain == Len(map'.drawnItems) = 1
ClearedByUser == page'.feedback = "Map cleared." /\ map'.drawnItems = <<>>
SavedToStore == StoredCount(localStorage') = StoredCount(localStorage) + 1

\* C22: getDrawnLayer() yields the most recently drawn shape that was neither
\* saved nor cleared, and null exactly when there is none: at most one
\* unsaved shape exists, and the shape getDrawnLayer() returns changes only
\* in a step that draws a shape, clears the draw layer or saves the shape,
\* whatever role changes and plot loads take place in between.
C22_DrawnLayerSurvives ==
    /\ [](Len(map.drawnItems) <= 1)
    /\ [][(Truthy(getDrawnLayer(map)) /\ getDrawnLayer(map') # getDrawnLayer(map))
             => (DrawnAgain \/ ClearedByUser \/ SavedToStore)
         ]_vars

-----------------------------------------------------------------------------
(* Properties of overlapping loads (SpecApplication)                       *)

\* the continuation of the l-th oldest loadCommunityPlots call in flight runs:
\* its body was awaited, allPlots is assigned and the map redrawn (or the
\* error is caught), and the call returns
Resumes(l) == l <= Len(loads) /\ loads[l].pc = "decoding" /\ loads' = Without(loads, l)

\* C23: overlapping loadCommunityPlots calls resume in the order in which
\* they were started: the continuation that runs is the one of the oldest
\* call in flight, never the one of a call started after a call that is
\* still waiting, so that the call started last is the one that assigns
\* allPlots and renders last.
C23_LoadsResumeInStartOrder ==
    [][(\E l \in Loads : Resumes(l)) => Resumes(1)]_vars

-----------------------------------------------------------------------------
(* Properties of the role (SpecApplication)                                *)

ValidRoles == {Str(ROLES.LANDOWNER), Str(ROLES.BEEKEEPER)}

\* the store holds the text of this role under userRole
StoredRoleIs(ls, role) == "userRole" \in DOMAIN ls /\ ls["userRole"] = Tokens(role)

\* a step in which app.init runs
InitRuns == ~page.started /\ page'.started

\* C24: the role and its stored copy agree: state.role is null or one of the
\* two roles; whenever it is not null the stored userRole is that role; and
\* app.init leaves the store as it was, restoring a valid stored role and
\* otherwise leaving the role null and showing the role modal.
C24_RoleMatchesStore ==
    /\ [](state.role \in ValidRoles \cup {Null})
    /\ [](state.role # Null => StoredRoleIs(localStorage, state.role))
    /\ [][InitRuns =>
             /\ localStorage' = localStorage
             /\ IF \E role \in ValidRoles : StoredRoleIs(localStorage, role)
                THEN StoredRoleIs(localStorage, state'.role) /\ ~page'.roleModal
                ELSE state'.role = Null /\ page'.roleModal
         ]_vars

-----------------------------------------------------------------------------
(* Properties of the default snapshot (Spec)                               *)

\* the default snapshot, with or without a pollen block
IsDefaultSnapshot(data) == Get(data, "condition") = Str("Data Unavailable")

\* the entries of the cache object the store holds
CacheEntries(ls) ==
    IF IsObj(CacheOf(ls)) THEN {CacheOf(ls)[2][i][2] : i \in 1..Len(CacheOf(ls)[2])} ELSE {}

\* C25: the cache never holds the default snapshot: no entry of the cache
\* carries it, a call that returns it leaves the store as it was, and no
\* call is served it from the cache, so that the call after a failed one
\* requests the forecast again.
C25_DefaultNeverCached ==
    /\ [](\A entry \in CacheEntries(localStorage) : ~IsDefaultSnapshot(Get(entry, "data")))
    /\ [][\A c \in Calls :
             (Returns(c) /\ IsDefaultSnapshot(calls'[c].result))
             => localStorage' = localStorage
         ]_vars
    /\ [](\A c \in Calls : calls[c].outcome = "hit" => ~IsDefaultSnapshot(calls[c].result))

-----------------------------------------------------------------------------
(* Properties of a save and its reload (SpecApplication)                   *)

Last(plots) == plots[Len(plots)]
Contains(plots, p) == \E i \in 1..Len(plots) : plots[i] = p

\* the reload a save started completes: the l-th call in flight, started for
\* a saved plot, decodes the seed list and returns without an error
ReloadCompletes(l) == Resumes(l) /\ loads[l].saved # Null /\ lastEvent'.error = ""

\* finalizeSave finds no drawn layer
SaveFindsNoLayer == lastEvent'.error = NoLayerError

\* a save that succeeds leaves the draw layer empty and starts a reload for
\* its plot; a save that finds no layer changes neither the store nor allPlots
SaveClearsAndReloads ==
    /\ SaveSucceeds
       => /\ getDrawnLayer(map') = Null
          /\ Len(loads') = Len(loads) + 1
          /\ loads'[Len(loads')] = Fetching(Last(StoredUserPlots(localStorage')))
    /\ SaveFindsNoLayer
       => /\ localStorage' = localStorage
          /\ state'.allPlots = state.allPlots

\* C26 as stated: after finalizeSave succeeds the draw layer is empty, and
\* when the reload it started completes with the seed list decoded, allPlots
\* holds the saved plot as its last element, whatever other calls were in
\* flight; a save with no drawn layer changes neither the store nor allPlots.
C26_SavedPlotIsLast ==
    [][/\ SaveClearsAndReloads
       /\ \A l \in Loads :
             ReloadCompletes(l)
             => state'.allPlots # <<>> /\ Last(state'.allPlots) = loads[l].saved
      ]_vars

\* C26, amended: when the reload completes allPlots holds the saved plot
\* after the seed plots; it is the last element when no other plot was saved
\* in between, and is followed by the plots saved since otherwise.
C26_SavedPlotBecomesVisible ==
    [][/\ SaveClearsAndReloads
       /\ \A l \in Loads :
             ReloadCompletes(l)
             => /\ Contains(state'.allPlots, loads[l].saved)
                /\ SubSeq(state'.allPlots, 1, 3) = <<PlotA, PlotB, PlotC>>
                /\ SubSeq(state'.allPlots, 4, Len(state'.allPlots))
                      = StoredUserPlots(localStorage)
                /\ Last(StoredUserPlots(localStorage)) = loads[l].saved
                   => Last(state'.allPlots) = loads[l].saved
      ]_vars

\* two plots were saved one after the other and a reload completed with both
\* in the store while the reload of the second save is still waiting: the
\* first plot is in allPlots, followed by the second, and the draw layer is
\* empty
C26_Witness ==
    /\ Len(StoredUserPlots(localStorage)) = 2
    /\ StoredUserPlots(localStorage)[1] # StoredUserPlots(localStorage)[2]
    /\ state.allPlots = <<PlotA, PlotB, PlotC>> \o StoredUserPlots(localStorage)
    /\ loads = <<Fetching(StoredUserPlots(localStorage)[2])>>
    /\ getDrawnLayer(map) = Null

====
